---------------------------- MODULE Spec2Model ----------------------------
(***************************************************************************)
(* A model of the question-answering core of ask.shag.dance:               *)
(*   - backend/chat_handler.py  ChatHandler.process_query, the oracle      *)
(*     retry wrapper and the legacy response cache,                        *)
(*   - backend/query_cache.py   QueryCache (the "smart" answer cache),     *)
(*   - backend/tools.py         execute_query_csa_data with its query      *)
(*     types, and the judge analyses of execute_analyze_csa_data,          *)
(*   - backend/data_loader.py   the snapshot loaded at process start,      *)
(*   - scripts/update_data.py   the offline merge that rewrites the file.  *)
(***************************************************************************)
EXTENDS Integers, Sequences, FiniteSets, TLC

(***************************************************************************)
(* Bounds of the model.                                                    *)
(***************************************************************************)
\* process_query calls made in one behaviour
MaxRequests == 2
\* ToolDispatch rounds that are counted and recorded in the message
\* history; the loop itself goes on past this horizon
MaxRounds == 1
\* tool_use blocks in one oracle response
MaxToolUses == 2
\* the clock stops advancing here
MaxTime == 600
\* archive rewrites by the offline merge in one behaviour
MaxMerges == 1
\* access_count of a cache entry is counted up to here
MaxAccessCount == 2
\* Stands for the 100 of chat_handler.py:629 (len(_response_cache) > 100):
\* the eviction code is the same for any capacity, the model runs it with
\* a capacity small enough to be exceeded.
MaxCacheEntries == 2

(***************************************************************************)
(* Program constants.                                                      *)
(***************************************************************************)
CACHE_EXPIRY_SECONDS == 300
max_retries == 1
DEFAULT_TTL == 300
STAT_TTL == 600
HARD_LIMIT == 50
DEFAULT_QUERY_LIMIT == 10
DEFAULT_ANALYZE_LIMIT == 20
MIN_CACHED_TEXT_LEN == 50
MIN_CACHEABLE_QUERY_LEN == 20
DEFAULT_END_YEAR == 2024
MAX_SUGGESTIONS == 10
DEFAULT_MIN_PANELS == 5
DEFAULT_MIN_CONTESTS == 10

\* The clock is read in steps of one legacy expiry period.
ClockStep == CACHE_EXPIRY_SECONDS

None == [none |-> TRUE]

(***************************************************************************)
(* Texts.  A text is modelled by what the code asks of it: its length,     *)
(* whether it starts with "Error:", and (for the text built in the last    *)
(* branch of the exception handler) the exception type and message that    *)
(* were formatted into it.                                                 *)
(***************************************************************************)
Text(body, n, err) ==
    [body |-> body, len |-> n, starts_error |-> err, exc_type |-> "", exc_msg |-> ""]

EmptyText == Text("", 0, FALSE)

\* chat_handler.py:677
NotConfiguredText ==
    Text("Error: API not configured. Please check environment variables.", 62, TRUE)

\* chat_handler.py:653-654, 661-662, 669-670
RateLimitApology ==
    Text("I'm experiencing high demand right now. Please try your question again in 30 seconds.", 85, FALSE)
TimeoutApology ==
    Text("Connection timeout. Please try again in a moment.", 49, FALSE)
ErrorApology ==
    Text("I encountered an error. Please rephrase your question.", 54, FALSE)

\* Texts the oracle may answer with: a substantial answer, a short one, none
\* at all, and one that happens to start with "Error:".
OracleLongText  == Text("<oracle answer, 200 characters>", 200, FALSE)
OracleShortText == Text("<oracle answer, 20 characters>", 20, FALSE)
OracleErrorText == Text("Error: <oracle answer, 80 characters>", 80, TRUE)
OracleTexts == {OracleLongText, OracleShortText, EmptyText, OracleErrorText}

\* final_text += block.text (chat_handler.py:787-790) over a response whose
\* text blocks together hold `t`
Concat(a, b) ==
    IF a.len = 0 THEN b
    ELSE IF b.len = 0 THEN a
    ELSE [body |-> a.body, len |-> a.len + b.len, starts_error |-> a.starts_error,
          exc_type |-> a.exc_type, exc_msg |-> a.exc_msg]

(***************************************************************************)
(* Questions.  A question is its raw text; `norm` names the text after     *)
(* strip().lower(), `raw` tells apart the raw spellings with one           *)
(* normalised text.  What should_cache_query reads of a question (the      *)
(* patterns it contains, its stripped length) is a function of the         *)
(* normalised text.                                                        *)
(***************************************************************************)
\* norm 1: "who has the most wins in the pro division?"  (42 characters)
\* norm 2: "who is the current pro champion today?"      (38 characters)
\* norm 3: "hi shaggy"                                   ( 9 characters)
\* norm 4: "how many wins does sam west have?"           (33 characters)
\* norm 5: "tell me about the junior divisions"          (34 characters)
NormText ==
    [n \in 1..5 |->
        CASE n = 1 -> [len |-> 42, no_cache |-> FALSE, cache |-> TRUE,  stat |-> TRUE]
          [] n = 2 -> [len |-> 38, no_cache |-> TRUE,  cache |-> FALSE, stat |-> FALSE]
          [] n = 3 -> [len |-> 9,  no_cache |-> FALSE, cache |-> FALSE, stat |-> FALSE]
          [] n = 4 -> [len |-> 33, no_cache |-> FALSE, cache |-> TRUE,  stat |-> FALSE]
          [] n = 5 -> [len |-> 34, no_cache |-> FALSE, cache |-> FALSE, stat |-> FALSE]]

Question(n, r) == [norm |-> n, raw |-> r]

\* The questions asked of process_query: norm 1 in two spellings
\* ("Who has the most wins in the Pro division?" and the same in upper case
\* with a trailing blank), a time-relative one, a short one, and one
\* cached for the default TTL.
Questions == {Question(1, 1), Question(1, 2), Question(2, 1), Question(3, 1),
              Question(4, 1)}

\* The question asked of the tool loop
LoopQuestions == {Question(2, 1)}

\* The question asked while the offline merge runs
MergeQuestions == {Question(4, 1)}

(***************************************************************************)
(* QueryCache (query_cache.py).                                            *)
(***************************************************************************)
\* query.strip().lower(), hashed
GenerateKey(q) == q.norm

should_cache_query(q) ==
    LET t == NormText[q.norm] IN
    IF t.no_cache THEN FALSE
    ELSE IF t.cache THEN TRUE
    ELSE t.len > MIN_CACHEABLE_QUERY_LEN

\* A reading of the expiry test that drops the entry at its deadline
ExpiredAtDeadline(entry, t) == t >= entry.expires_at

\* current_time > entry['expires_at']
Expired(entry, t) == t > entry.expires_at

Bump(n) == IF n < MaxAccessCount THEN n + 1 ELSE n

\* QueryCache.get: <<value returned, cache afterwards>>
QueryCacheGet(cache, q, t) ==
    LET key == GenerateKey(q) IN
    IF key \notin DOMAIN cache THEN <<None, cache>>
    ELSE IF Expired(cache[key], t)
         THEN <<None, [k \in DOMAIN cache \ {key} |-> cache[k]]>>
         ELSE <<cache[key].result,
                [cache EXCEPT ![key].last_accessed = t,
                              ![key].access_count = Bump(@)]>>

\* QueryCache.set
QueryCacheSet(cache, q, result, ttl, t) ==
    LET key == GenerateKey(q) IN
    [k \in DOMAIN cache \cup {key} |->
        IF k = key
        THEN [result |-> result, created_at |-> t, last_accessed |-> t,
              expires_at |-> t + ttl, access_count |-> 1]
        ELSE cache[k]]

(***************************************************************************)
(* The legacy response cache (chat_handler.py:13-16, 606-632).             *)
(***************************************************************************)
\* md5(user_question + system_prompt): the raw text, not normalised; the
\* system prompt is the same for every request of a process.
GetCacheKey(q) == <<q.norm, q.raw>>

\* A reading of the test that keeps the entry at its deadline
LegacyFreshAtDeadline(entry, t) == t - entry.timestamp <= CACHE_EXPIRY_SECONDS

\* time.time() - timestamp < CACHE_EXPIRY_SECONDS
LegacyFresh(entry, t) == t - entry.timestamp < CACHE_EXPIRY_SECONDS

\* _get_cached_response: <<value returned, cache afterwards>>
GetCachedResponse(cache, key, t) ==
    IF key \in DOMAIN cache
    THEN IF LegacyFresh(cache[key], t)
         THEN <<cache[key].data, cache>>
         ELSE <<None, [k \in DOMAIN cache \ {key} |-> cache[k]]>>
    ELSE <<None, cache>>

\* min(_response_cache.keys(), key=timestamp): a key of the least timestamp
\* (the first such in insertion order in the code; any of them here)
OldestKeys(cache) ==
    {k \in DOMAIN cache : \A j \in DOMAIN cache : cache[k].timestamp <= cache[j].timestamp}

\* _cache_response: the set of caches it may leave
CacheResponse(cache, key, data, t) ==
    LET stored == [k \in DOMAIN cache \cup {key} |->
                      IF k = key THEN [data |-> data, timestamp |-> t] ELSE cache[k]]
    IN  IF Cardinality(DOMAIN stored) > MaxCacheEntries
        THEN {[k \in DOMAIN stored \ {old} |-> stored[k]] : old \in OldestKeys(stored)}
        ELSE {stored}

(***************************************************************************)
(* JSON values of a tool input, tagged with their Python type.             *)
(***************************************************************************)
Str(s)   == [t |-> "str", s |-> s]
\* a string read character by character (the contest-name pattern)
Chars(cs) == [t |-> "chars", s |-> cs]
Int_(n)  == [t |-> "int", n |-> n]
Null     == [t |-> "null"]

\* Python truthiness of a JSON value
Truthy(v) ==
    CASE v.t = "str"   -> v.s # ""
      [] v.t = "chars" -> Len(v.s) > 0
      [] v.t = "int"   -> v.n # 0
      [] OTHER         -> FALSE

(***************************************************************************)
(* The contest table.  A cell read from an empty CSV field is NaN.         *)
(***************************************************************************)
NaN == "NaN"
NaNChars == <<"NaN">>

Row(id, contest, org, year, placement, division, female, male) ==
    [archive_id |-> id, Contest |-> contest, Organization |-> org, Year |-> year,
     Placement |-> placement, Division |-> division, Female |-> female, Male |-> male]

\* str.lower() on the characters the model's contest names and dancer names
\* are written in
LowerChar(c) ==
    CASE c = "A" -> "a"
      [] c = "B" -> "b"
      [] c = "J" -> "j"
      [] c = "K" -> "k"
      [] c = "L" -> "l"
      [] c = "P" -> "p"
      [] c = "S" -> "s"
      [] c = "W" -> "w"
      [] OTHER   -> c

Lower(cs) == [i \in 1..Len(cs) |-> LowerChar(cs[i])]

\* re.compile(pattern): an unbalanced parenthesis is no regular expression
ValidPattern(cs) == \A i \in 1..Len(cs) : cs[i] # "("

\* Series.str.contains(pattern, case=False, na=False) on one cell, for a
\* pattern of literal characters
ContainsNoCase(cell, pattern) ==
    /\ cell # NaNChars
    /\ \E i \in 1..(Len(cell) - Len(pattern) + 1) :
          SubSeq(Lower(cell), i, i + Len(pattern) - 1) = Lower(pattern)

SelectRows(rows, Keep(_)) == SelectSeq(rows, Keep)

\* Series == value, for a column of strings and for a column of integers:
\* a value of another type equals no cell, NaN equals nothing
EqStrCell(cell, v) == cell # NaN /\ v.t = "str" /\ cell = v.s
EqIntCell(cell, v) == v.t = "int" /\ cell = v.n

Has(filters, key) == key \in DOMAIN filters

\* The outcome of a step that may raise: the rows, or the exception
Ok(rows) == [ok |-> TRUE, rows |-> rows]
Raised(exc_type) == [ok |-> FALSE, exc_type |-> exc_type]
\* The next step on the rows of r, or r itself once something was raised
\* (r is worked out once)
Then(r, Step(_)) == CHOOSE out \in {IF v.ok THEN Step(v.rows) ELSE v : v \in {r}} : TRUE

\* tools.py:180-182
FilterDivision(filters, rows) ==
    IF Has(filters, "division") /\ Truthy(filters["division"])
    THEN Ok(SelectRows(rows, LAMBDA r : EqStrCell(r.Division, filters["division"])))
    ELSE Ok(rows)

\* tools.py:184-186
FilterOrganization(filters, rows) ==
    IF /\ Has(filters, "organization")
       /\ Truthy(filters["organization"])
       /\ filters["organization"] # Str("Both")
    THEN Ok(SelectRows(rows, LAMBDA r : EqStrCell(r.Organization, filters["organization"])))
    ELSE Ok(rows)

\* tools.py:188-190
FilterPlacement(filters, rows) ==
    IF Has(filters, "placement") /\ filters["placement"] # Null
    THEN Ok(SelectRows(rows, LAMBDA r : EqIntCell(r.Placement, filters["placement"])))
    ELSE Ok(rows)

\* tools.py:192-194
FilterMaleName(filters, rows) ==
    IF Has(filters, "male_name") /\ Truthy(filters["male_name"])
    THEN Ok(SelectRows(rows, LAMBDA r : EqStrCell(r.Male, filters["male_name"])))
    ELSE Ok(rows)

\* tools.py:196-198
FilterFemaleName(filters, rows) ==
    IF Has(filters, "female_name") /\ Truthy(filters["female_name"])
    THEN Ok(SelectRows(rows, LAMBDA r : EqStrCell(r.Female, filters["female_name"])))
    ELSE Ok(rows)

\* A year filter applied whether or not the caller gave a year
FilterYearUnguarded(filters, rows) ==
    Ok(SelectRows(rows, LAMBDA r :
            EqIntCell(r.Year, IF Has(filters, "year") THEN filters["year"] ELSE Null)))

\* tools.py:200-202
FilterYear(filters, rows) ==
    IF Has(filters, "year") /\ Truthy(filters["year"])
    THEN Ok(SelectRows(rows, LAMBDA r : EqIntCell(r.Year, filters["year"])))
    ELSE Ok(rows)

\* tools.py:204-210: an ordering comparison of the Year column with a value
\* that is no number raises TypeError
FilterYearRange(filters, rows) ==
    IF /\ Has(filters, "start_year") /\ Has(filters, "end_year")
       /\ Truthy(filters["start_year"]) /\ Truthy(filters["end_year"])
    THEN IF filters["start_year"].t = "int" /\ filters["end_year"].t = "int"
         THEN Ok(SelectRows(rows, LAMBDA r : /\ r.Year >= filters["start_year"].n
                                             /\ r.Year <= filters["end_year"].n))
         ELSE Raised("TypeError")
    ELSE Ok(rows)

\* tools.py:212-214: str.contains wants a string that compiles
FilterContest(filters, rows) ==
    IF Has(filters, "contest") /\ Truthy(filters["contest"])
    THEN IF filters["contest"].t # "chars" THEN Raised("TypeError")
         ELSE IF ~ValidPattern(filters["contest"].s) THEN Raised("error")
         ELSE Ok(SelectRows(rows, LAMBDA r : ContainsNoCase(r.Contest, filters["contest"].s)))
    ELSE Ok(rows)

\* tools.py:175-214, the filter step over a map of filters
ApplyFilters(filters, df) ==
    LET s1 == FilterDivision(filters, df)
        s2 == Then(s1, LAMBDA rows : FilterOrganization(filters, rows))
        s3 == Then(s2, LAMBDA rows : FilterPlacement(filters, rows))
        s4 == Then(s3, LAMBDA rows : FilterMaleName(filters, rows))
        s5 == Then(s4, LAMBDA rows : FilterFemaleName(filters, rows))
        s6 == Then(s5, LAMBDA rows : FilterYear(filters, rows))
        s7 == Then(s6, LAMBDA rows : FilterYearRange(filters, rows))
    IN  Then(s7, LAMBDA rows : FilterContest(filters, rows))

(***************************************************************************)
(* Python containers.                                                      *)
(***************************************************************************)
\* dict.get(key, default)
Get(d, key, default) == IF key \in DOMAIN d THEN d[key] ELSE default

Min(a, b) == IF a <= b THEN a ELSE b
Max(a, b) == IF a >= b THEN a ELSE b

\* DataFrame.head(n) / Series.head(n): the first n, or all but the last -n
DfHead(s, n) ==
    IF n >= 0 THEN SubSeq(s, 1, Min(n, Len(s)))
    ELSE SubSeq(s, 1, Max(Len(s) + n, 0))

\* The elements of s in order of first appearance
Distinct(s) ==
    LET first == SelectSeq([i \in 1..Len(s) |-> i],
                           LAMBDA i : \A j \in 1..(i - 1) : s[j] # s[i])
    IN  [k \in 1..Len(first) |-> s[first[k]]]

\* A stable sort of s by the strict weak order Before: the place of s[i] is
\* the number of elements that go before it, those equal to it and earlier
\* in s included
SortBy(s, Before(_, _)) ==
    LET Place(i) == 1 + Cardinality({j \in 1..Len(s) :
                          \/ Before(s[j], s[i])
                          \/ (~Before(s[i], s[j]) /\ j < i)})
    IN  [p \in 1..Len(s) |-> s[CHOOSE i \in 1..Len(s) : Place(i) = p]]

Count(s, P(_)) == Len(SelectSeq(s, P))

\* Series.value_counts(): each value that is not NaN with its number of
\* rows, most frequent first, equal counts in order of first appearance
ValueCounts(cells) ==
    LET present == SelectSeq(cells, LAMBDA c : c # NaN)
        names == Distinct(present)
        pairs == [i \in 1..Len(names) |->
                    [name |-> names[i],
                     count |-> Count(present, LAMBDA c : c = names[i])]]
    IN  \* the pairs are counted once and then sorted
        CHOOSE sorted \in {SortBy(ps, LAMBDA x, y : x.count > y.count) : ps \in {pairs}} : TRUE

Column(rows, Cell(_)) == [i \in 1..Len(rows) |-> Cell(rows[i])]

(***************************************************************************)
(* execute_query_csa_data and execute_analyze_csa_data (tools.py).         *)
(* A tool input argument is a tagged JSON value; `filters` is              *)
(* [t |-> "map", m |-> <the map>] when it is an object.                    *)
(***************************************************************************)
Map(m) == [t |-> "map", m |-> m]
EmptyMap == [k \in {} |-> Null]

ToolResult(fields) == [kind |-> "result", fields |-> fields]
ToolError(msg, exc_type) == [kind |-> "error", error |-> msg, exc_type |-> exc_type]
ToolRaise(exc_type, msg) == [kind |-> "raise", exc_type |-> exc_type, exc_msg |-> msg]

\* The filter step reads `filters` with `key in filters` and filters[key]:
\* on an object these are the map's; None raises TypeError; a string is
\* searched for the key as a substring, which none of the strings here
\* contains, so that no filter applies.
FilterStep(filters, df) ==
    CASE filters.t = "map" -> ApplyFilters(filters.m, df)
      [] filters.t = "str" -> Ok(df)
      [] OTHER             -> Raised("TypeError")

\* tools.py:228-242, count_wins / top_dancers
TopDancers(filters, filtered_df, limit) ==
    IF filters.t # "map" THEN Raised("AttributeError")
    ELSE LET gender == Get(filters.m, "gender", Str("male"))
             cells == IF gender = Str("male")
                      THEN Column(filtered_df, LAMBDA r : r.Male)
                      ELSE Column(filtered_df, LAMBDA r : r.Female)
         IN  IF Len(filtered_df) = 0
             THEN Ok([results |-> <<>>])
             ELSE Ok([results |-> DfHead(ValueCounts(cells), limit)])

\* tools.py:244-252, dancer_record
DancerRecord(filtered_df, limit) ==
    IF Len(filtered_df) = 0
    THEN Ok([records |-> <<>>])
    ELSE Ok([records |-> DfHead(filtered_df, limit)])

(***************************************************************************)
(* Name lookups (tools.py:254-306 and 371-456).  A name cell is a string;  *)
(* the searches read it character by character.                            *)
(***************************************************************************)
\* The characters of the strings that name dancers or are looked for
CharsOf(s) ==
    CASE s = ""         -> <<>>
      [] s = " "        -> <<" ">>
      [] s = "."        -> <<".">>
      [] s = "("        -> <<"(">>
      [] s = "ab"       -> <<"a", "b">>
      [] s = "aba"      -> <<"a", "b", "a">>
      [] s = "bb"       -> <<"b", "b">>
      [] s = "Ab"       -> <<"A", "b">>
      [] s = "Aba"      -> <<"A", "b", "a">>
      [] s = "Ba"       -> <<"B", "a">>
      [] s = "Bab"      -> <<"B", "a", "b">>
      [] s = "Joe"      -> <<"J", "o", "e">>
      [] s = "Kim"      -> <<"K", "i", "m">>
      [] s = "Lee"      -> <<"L", "e", "e">>
      [] s = "Bea"      -> <<"B", "e", "a">>
      [] s = "Ann Pro"  -> <<"A", "n", "n", " ", "P", "r", "o">>
      [] s = "Sam West" -> <<"S", "a", "m", " ", "W", "e", "s", "t">>

\* str.strip()
RECURSIVE Strip(_)
Strip(cs) ==
    IF cs = <<>> THEN cs
    ELSE IF cs[1] = " " THEN Strip(Tail(cs))
    ELSE IF cs[Len(cs)] = " " THEN Strip(SubSeq(cs, 1, Len(cs) - 1))
    ELSE cs

\* Series.str.contains(pattern, case=False, na=False) on one name cell: the
\* pattern is searched for as a regular expression, in which "." stands
\* for any character and every other character here for itself
StrContains(cell, pattern) ==
    /\ cell # NaN
    /\ LET cs == CharsOf(cell)
       IN  \E i \in 1..(Len(cs) - Len(pattern) + 1) :
              \A k \in 1..Len(pattern) :
                 \/ pattern[k] = "."
                 \/ LowerChar(cs[i + k - 1]) = LowerChar(pattern[k])

\* The order of the characters used in contest names and dancer names
CharRank(c) ==
    CASE c = " " -> 32
      [] c = "(" -> 40
      [] c = "." -> 46
      [] c = "A" -> 65
      [] c = "B" -> 66
      [] c = "J" -> 74
      [] c = "K" -> 75
      [] c = "L" -> 76
      [] c = "P" -> 80
      [] c = "S" -> 83
      [] c = "W" -> 87
      [] c = "a" -> 97
      [] c = "b" -> 98
      [] c = "e" -> 101
      [] c = "i" -> 105
      [] c = "m" -> 109
      [] c = "n" -> 110
      [] c = "o" -> 111
      [] c = "r" -> 114
      [] c = "s" -> 115
      [] c = "t" -> 116

CharsLess(a, b) ==
    \/ \E i \in 1..Min(Len(a), Len(b)) :
          /\ \A j \in 1..(i - 1) : a[j] = b[j]
          /\ CharRank(a[i]) < CharRank(b[i])
    \/ /\ Len(a) < Len(b)
       /\ \A j \in 1..Len(a) : a[j] = b[j]

\* sorted() on names
NameLess(a, b) == CharsLess(CharsOf(a), CharsOf(b))

\* The names of either column in the rows where that column matches
\* search_name: list(male_matches) + list(female_matches), each .unique()
NameMatches(df, search_name) ==
    LET male == SelectRows(df, LAMBDA r : StrContains(r.Male, search_name))
        female == SelectRows(df, LAMBDA r : StrContains(r.Female, search_name))
    IN  Distinct(Column(male, LAMBDA r : r.Male))
            \o Distinct(Column(female, LAMBDA r : r.Female))

\* Series.min() / Series.max() of the Year column; None for nan
YearMin(rows) ==
    IF rows = <<>> THEN None
    ELSE CHOOSE y \in {rows[i].Year : i \in 1..Len(rows)} :
            \A i \in 1..Len(rows) : y <= rows[i].Year
YearMax(rows) ==
    IF rows = <<>> THEN None
    ELSE CHOOSE y \in {rows[i].Year : i \in 1..Len(rows)} :
            \A i \in 1..Len(rows) : y >= rows[i].Year

\* The year range either lookup applies to the dancer's rows once
\* start_year is truthy: end_year is filters.get('end_year', default), and
\* comparing the Year column with a value that is no number raises
\* TypeError; a default of nan keeps no row
DancerYearRange(f, dancer_df, default_end) ==
    IF Has(f, "start_year") /\ Truthy(f["start_year"])
    THEN LET end_year == Get(f, "end_year", default_end)
         IN  IF end_year = None THEN Ok(<<>>)
             ELSE IF f["start_year"].t = "int" /\ end_year.t = "int"
             THEN Ok(SelectRows(dancer_df, LAMBDA r : /\ r.Year >= f["start_year"].n
                                                      /\ r.Year <= end_year.n))
             ELSE Raised("TypeError")
    ELSE Ok(dancer_df)

\* tools.py:277-287, the additional filters of dancer_search
SearchFilters(f, dancer_df) ==
    LET s1 == FilterOrganization(f, dancer_df)
        s2 == Then(s1, LAMBDA rows : FilterDivision(f, rows))
    IN  Then(s2, LAMBDA rows : DancerYearRange(f, rows, Int_(DEFAULT_END_YEAR)))

\* tools.py:409-419, the additional filters of smart_dancer_lookup
LookupFilters(f, dancer_df) ==
    LET s1 == FilterOrganization(f, dancer_df)
        s2 == Then(s1, LAMBDA rows : FilterDivision(f, rows))
    IN  Then(s2, LAMBDA rows :
            DancerYearRange(f, rows,
                IF rows = <<>> THEN None ELSE Int_(YearMax(rows))))

\* Every contest counted
Entries(rows) == Len(rows)
\* len(dancer_df[dancer_df['Placement'] == 1])
Wins(rows) == Count(rows, LAMBDA r : r.Placement = 1)

\* tools.py:254-306, dancer_search: the fields added to `result`
DancerSearch(filters, df) ==
    IF filters.t # "map" THEN Raised("AttributeError")
    ELSE LET f == filters.m
             dancer_name == Get(f, "dancer_name", Str(""))
         IN  IF dancer_name.t # "str" THEN Raised("AttributeError")
             ELSE LET search_name == Strip(CharsOf(dancer_name.s))
                      all_matches == SortBy(Distinct(NameMatches(df, search_name)), NameLess)
                  IN  IF search_name = <<>>
                      THEN Ok([error |-> "dancer_name is required for dancer_search"])
                      ELSE IF ~ValidPattern(search_name) THEN Raised("error")
                      ELSE IF Len(all_matches) = 0
                      THEN Ok([matches |-> <<>>,
                               message |-> "No dancers found matching",
                               suggestion |-> "Try checking the spelling or using fewer characters"])
                      ELSE IF Len(all_matches) = 1
                      THEN LET exact_name == all_matches[1]
                               named == SelectRows(df, LAMBDA r :
                                            r.Male = exact_name \/ r.Female = exact_name)
                               step == SearchFilters(f, named)
                           IN  IF ~step.ok THEN step
                               ELSE Ok([exact_match |-> exact_name,
                                        total_contests |-> Len(step.rows),
                                        wins |-> Wins(step.rows),
                                        divisions |-> Distinct(Column(step.rows, LAMBDA r : r.Division)),
                                        years_active |-> <<YearMin(step.rows), YearMax(step.rows)>>])
                      ELSE Ok([matches |-> DfHead(all_matches, MAX_SUGGESTIONS),
                               match_count |-> Len(all_matches)])

\* A quotient cut off after the last digit kept
RoundDown(num, den) == num \div den

\* round(x, digits) of the quotient num/den scaled to an integer: to the
\* nearest, a tie to the even one.  The float quotient the code rounds
\* gives the same for every table of up to MaxRows rows.
RoundHalfEven(num, den) ==
    LET q == num \div den
        r == num % den
    IN  IF 2 * r > den \/ (2 * r = den /\ q % 2 = 1) THEN q + 1 ELSE q

\* tools.py:371-456, smart_dancer_lookup: the fields added to `result`;
\* win_rate is in tenths of a percent
SmartDancerLookup(filters, df) ==
    IF filters.t # "map" THEN Raised("AttributeError")
    ELSE LET f == filters.m
             dancer_name == Get(f, "dancer_name", Str(""))
         IN  IF dancer_name.t # "str" THEN Raised("AttributeError")
             ELSE LET search_name == Strip(CharsOf(dancer_name.s))
                      exact_combined_df == SelectRows(df, LAMBDA r :
                          \/ (r.Male # NaN /\ CharsOf(r.Male) = search_name)
                          \/ (r.Female # NaN /\ CharsOf(r.Female) = search_name))
                      all_matches == Distinct(NameMatches(df, search_name))
                      step == LookupFilters(f, exact_combined_df)
                  IN  IF search_name = <<>>
                      THEN Ok([error |-> "dancer_name is required for smart_dancer_lookup"])
                      ELSE IF Len(exact_combined_df) = 0
                      THEN IF ~ValidPattern(search_name) THEN Raised("error")
                           ELSE IF Len(all_matches) > 0
                           THEN Ok([possible_matches |-> DfHead(all_matches, MAX_SUGGESTIONS),
                                    message |-> "No exact match"])
                           ELSE Ok([message |-> "No dancers found matching"])
                      ELSE IF ~step.ok THEN step
                      ELSE LET dancer_df == step.rows
                               total_contests == Len(dancer_df)
                               total_wins == Wins(dancer_df)
                           IN  Ok([dancer_name |-> search_name,
                                   summary |->
                                     [total_contests |-> total_contests,
                                      total_wins |-> total_wins,
                                      win_rate |-> IF total_contests > 0
                                                   THEN RoundHalfEven(1000 * total_wins, total_contests)
                                                   ELSE 0,
                                      career_span |-> <<YearMin(dancer_df), YearMax(dancer_df)>>]])

\* tools.py:308-316 contest_results and 360-368 custom_query
ContestResults(filtered_df, limit) ==
    IF Len(filtered_df) = 0
    THEN Ok([records |-> <<>>])
    ELSE Ok([records |-> DfHead(filtered_df, limit)])

CustomQuery(filtered_df, limit) ==
    IF Len(filtered_df) = 0
    THEN Ok([sample_records |-> <<>>])
    ELSE Ok([sample_records |-> DfHead(filtered_df, limit)])

\* A row with the five judge columns 'Judge 1' .. 'Judge 5'
JUDGE_SLOTS == 5
Judged(row, judges) ==
    [c \in DOMAIN row \cup {"Judges"} |-> IF c = "Judges" THEN judges ELSE row[c]]
NoJudges == [k \in 1..JUDGE_SLOTS |-> NaN]
\* `col in filtered_df.columns` for the judge columns
HasJudgeColumns(df) == \A i \in 1..Len(df) : "Judges" \in DOMAIN df[i]
\* A judge in the first column
FirstJudge(r) == r.Judges[1] # NaN
\* filtered_df[available_judge_columns].notna().any(axis=1)
AnyJudge(r) == \E k \in 1..JUDGE_SLOTS : r.Judges[k] # NaN

\* all_judges_list: the judges of the first column, then of the second, ...
RECURSIVE JudgeCells(_, _)
JudgeCells(rows, k) ==
    IF k = 0 THEN <<>>
    ELSE JudgeCells(rows, k - 1)
            \o SelectSeq([i \in 1..Len(rows) |-> rows[i].Judges[k]], LAMBDA c : c # NaN)

\* tools.py:318-358, judge_statistics
JudgeStatistics(df, filtered_df, limit) ==
    IF ~HasJudgeColumns(df)
    THEN Ok([results |-> <<>>,
             message |-> "No judge columns found in the database"])
    ELSE LET all_judges_list == JudgeCells(filtered_df, JUDGE_SLOTS)
             records_with_judges == Count(filtered_df, AnyJudge)
         IN  IF all_judges_list = <<>>
             THEN Ok([results |-> <<>>,
                      message |-> "No judge data found in the filtered records",
                      records_with_judge_data |-> 0,
                      records_without_judge_data |-> Len(filtered_df)])
             ELSE Ok([results |-> DfHead(ValueCounts(all_judges_list), limit),
                      message |-> "Top judges by contest appearances",
                      total_contest_records |-> Len(filtered_df),
                      records_with_judge_data |-> records_with_judges,
                      records_without_judge_data |-> Len(filtered_df) - records_with_judges])

\* A dict returned in place of `result` (tools.py:461-657)
Fresh(fields) == [ok |-> TRUE, rows |-> fields, fresh |-> TRUE]

\* Series.dropna().unique() counted
UniqueCount(cells) == Len(Distinct(SelectSeq(cells, LAMBDA c : c # NaN)))

\* tools.py:461-521, unique_counts.  The rows of the model carry no
\* 'Couple Name' and no 'Host Club': for these the dict is written without
\* its unique_count.  Another count_what falls through to `return result`.
UniqueCounts(filters, filtered_df) ==
    IF filters.t # "map" THEN Raised("AttributeError")
    ELSE LET count_what == Get(filters.m, "count_what", Str("all_dancers"))
             males == Column(filtered_df, LAMBDA r : r.Male)
             females == Column(filtered_df, LAMBDA r : r.Female)
         IN  CASE count_what = Str("all_dancers") ->
                    Fresh([unique_dancers_total |-> UniqueCount(males \o females),
                           unique_male_dancers |-> UniqueCount(males),
                           unique_female_dancers |-> UniqueCount(females),
                           total_contest_entries |-> Len(filtered_df)])
               [] count_what = Str("male_dancers") ->
                    Fresh([unique_count |-> UniqueCount(males),
                           total_contest_entries |-> Len(filtered_df)])
               [] count_what = Str("female_dancers") ->
                    Fresh([unique_count |-> UniqueCount(females),
                           total_contest_entries |-> Len(filtered_df)])
               [] count_what = Str("contests") ->
                    Fresh([unique_count |->
                              Len(Distinct(SelectSeq(Column(filtered_df, LAMBDA r : r.Contest),
                                                     LAMBDA c : c # NaNChars))),
                           total_contest_entries |-> Len(filtered_df)])
               [] count_what \in {Str("couples"), Str("venues")} ->
                    Fresh([total_contest_entries |-> Len(filtered_df)])
               [] OTHER -> Ok([unhandled |-> TRUE])

\* The dancer's rows: (Male Name == dancer_name) | (Female Name == dancer_name)
RowsOf(filtered_df, dancer_name) ==
    SelectRows(filtered_df, LAMBDA r :
        EqStrCell(r.Male, dancer_name) \/ EqStrCell(r.Female, dancer_name))

\* tools.py:524-551, win_statistics; win_rate_percent is in hundredths of
\* a percent
WinStatistics(filters, filtered_df) ==
    IF filters.t # "map" THEN Raised("AttributeError")
    ELSE LET dancer_name == Get(filters.m, "dancer_name", Null)
             dancer_df == RowsOf(filtered_df, dancer_name)
             total_contests == Len(dancer_df)
             wins == Wins(dancer_df)
         IN  IF ~Truthy(dancer_name)
             THEN Fresh([error |-> "dancer_name is required for win_statistics"])
             ELSE IF Len(dancer_df) = 0
             THEN Fresh([error |-> "No records found for dancer_name"])
             ELSE Fresh([dancer |-> dancer_name,
                         total_contests |-> total_contests,
                         wins |-> wins,
                         top_3_finishes |-> Count(dancer_df, LAMBDA r : r.Placement <= 3),
                         win_rate_percent |-> RoundHalfEven(10000 * wins, total_contests)])

\* The partner column of the dancer: 'Female Name' if the name is in
\* 'Male Name' of any row, else 'Male Name'
Partners(dancer_df, dancer_name) ==
    IF \E i \in 1..Len(dancer_df) : EqStrCell(dancer_df[i].Male, dancer_name)
    THEN Column(dancer_df, LAMBDA r : r.Female)
    ELSE Column(dancer_df, LAMBDA r : r.Male)

\* tools.py:554-594, partnership_analysis
PartnershipAnalysis(filters, filtered_df, limit) ==
    IF filters.t # "map" THEN Raised("AttributeError")
    ELSE LET dancer_name == Get(filters.m, "dancer_name", Null)
             dancer_df == RowsOf(filtered_df, dancer_name)
             partner_cells == Partners(dancer_df, dancer_name)
             partnership_stats == ValueCounts(partner_cells)
         IN  IF ~Truthy(dancer_name)
             THEN Fresh([error |-> "dancer_name is required for partnership_analysis"])
             ELSE IF Len(dancer_df) = 0
             THEN Fresh([error |-> "No records found for dancer_name"])
             ELSE Fresh([dancer |-> dancer_name,
                         total_partners |-> Len(partnership_stats),
                         partnerships |-> DfHead(partnership_stats, limit)])

\* tools.py:597-636, career_statistics
CareerStatistics(filters, filtered_df) ==
    IF filters.t # "map" THEN Raised("AttributeError")
    ELSE LET dancer_name == Get(filters.m, "dancer_name", Null)
             dancer_df == RowsOf(filtered_df, dancer_name)
         IN  IF ~Truthy(dancer_name)
             THEN Fresh([error |-> "dancer_name is required for career_statistics"])
             ELSE IF Len(dancer_df) = 0
             THEN Fresh([error |-> "No records found for dancer_name"])
             ELSE Fresh([dancer |-> dancer_name,
                         first_contest_year |-> YearMin(dancer_df),
                         last_contest_year |-> YearMax(dancer_df),
                         career_span_years |-> YearMax(dancer_df) - YearMin(dancer_df) + 1,
                         years_competed |-> Len(Distinct(Column(dancer_df, LAMBDA r : r.Year))),
                         total_contests |-> Len(dancer_df),
                         unique_partners |-> UniqueCount(Partners(dancer_df, dancer_name))])

\* The last year of a count by year
LatestYear(yearly) == CHOOSE y \in DOMAIN yearly : \A z \in DOMAIN yearly : z <= y
\* Series.idxmax() of a count by year, which groupby keeps in order of the
\* years: the first year with the greatest count
PeakYear(yearly) ==
    CHOOSE y \in DOMAIN yearly :
        /\ \A z \in DOMAIN yearly : yearly[z] <= yearly[y]
        /\ \A z \in DOMAIN yearly : yearly[z] = yearly[y] => y <= z

\* tools.py:639-657, yearly_trends: the rows counted by year
YearlyTrends(filters, filtered_df) ==
    IF filters.t # "map" THEN Raised("AttributeError")
    ELSE LET metric == Get(filters.m, "metric", Str("entries"))
             counted == IF metric = Str("wins")
                        THEN SelectRows(filtered_df, LAMBDA r : r.Placement = 1)
                        ELSE filtered_df
             years == {counted[i].Year : i \in 1..Len(counted)}
             yearly_data == [y \in years |-> Count(counted, LAMBDA r : r.Year = y)]
         IN  Fresh([metric |-> metric,
                    yearly_data |-> yearly_data,
                    total_years |-> Cardinality(years),
                    peak_year |-> IF years = {} THEN Null ELSE Int_(PeakYear(yearly_data)),
                    peak_count |-> IF years = {} THEN Null
                                   ELSE Int_(yearly_data[PeakYear(yearly_data)])])

\* The branch of tools.py:228-657 taken for query_type; a type that no
\* branch names falls through to `return result`
QueryBody(query_type, filters, df, filtered_df, limit) ==
    CASE query_type \in {Str("count_wins"), Str("top_dancers")} ->
            TopDancers(filters, filtered_df, limit)
      [] query_type = Str("dancer_record") -> DancerRecord(filtered_df, limit)
      [] query_type = Str("dancer_search") -> DancerSearch(filters, df)
      [] query_type = Str("contest_results") -> ContestResults(filtered_df, limit)
      [] query_type = Str("judge_statistics") -> JudgeStatistics(df, filtered_df, limit)
      [] query_type = Str("custom_query") -> CustomQuery(filtered_df, limit)
      [] query_type = Str("smart_dancer_lookup") -> SmartDancerLookup(filters, df)
      [] query_type = Str("unique_counts") -> UniqueCounts(filters, filtered_df)
      [] query_type = Str("win_statistics") -> WinStatistics(filters, filtered_df)
      [] query_type = Str("partnership_analysis") ->
            PartnershipAnalysis(filters, filtered_df, limit)
      [] query_type = Str("career_statistics") -> CareerStatistics(filters, filtered_df)
      [] query_type = Str("yearly_trends") -> YearlyTrends(filters, filtered_df)
      [] OTHER -> Ok([unhandled |-> TRUE])

\* tools.py:137-667.  `file` is what pd.read_csv finds on disk at the call.
execute_query_csa_data(query_type, filters, limit, file) ==
    \* 150-153, before the try: an ordering comparison with a limit that is
    \* no number raises out of the function
    IF limit.t # "int"
    THEN ToolRaise("TypeError", "'>' not supported between instances")
    ELSE LET capped == IF limit.n > HARD_LIMIT THEN HARD_LIMIT ELSE limit.n
             df == file
             original_count == Len(df)
             step == FilterStep(filters, df)
         IN  IF ~step.ok
             THEN ToolError("Query execution failed", step.exc_type)
             ELSE LET filtered_df == step.rows
                      lim == Min(capped, HARD_LIMIT)
                      body == CHOOSE b \in {QueryBody(query_type, filters, df, filtered_df, lim)} : TRUE
                  IN  IF ~body.ok
                      THEN ToolError("Query execution failed", body.exc_type)
                      ELSE IF "fresh" \in DOMAIN body
                      THEN ToolResult(body.rows)
                      ELSE ToolResult([query_type |-> query_type,
                                       total_database_records |-> original_count,
                                       filtered_records |-> Len(filtered_df),
                                       limit |-> lim,
                                       body |-> body.rows])

\* tools.py:687-695, the base filters of an analysis (filters.get on a
\* value that is no object raises AttributeError)
AnalysisFilterStep(filters, df) ==
    IF filters.t # "map" THEN Raised("AttributeError")
    ELSE LET f == filters.m
             org == Get(f, "organization", Null)
             div == Get(f, "division", Null)
             sy == Get(f, "start_year", Null)
             ey == Get(f, "end_year", Null)
             s1 == IF Truthy(org) /\ org # Str("Both")
                   THEN SelectRows(df, LAMBDA r : EqStrCell(r.Organization, org))
                   ELSE df
             s2 == IF Truthy(div)
                   THEN SelectRows(s1, LAMBDA r : EqStrCell(r.Division, div))
                   ELSE s1
         IN  IF Truthy(sy) /\ Truthy(ey)
             THEN IF sy.t = "int" /\ ey.t = "int"
                  THEN Ok(SelectRows(s2, LAMBDA r : r.Year >= sy.n /\ r.Year <= ey.n))
                  ELSE Raised("TypeError")
             ELSE Ok(s2)

\* The values of a list with their numbers of occurrences, most frequent
\* first, equal counts in order of first appearance
Tally(present) ==
    LET names == Distinct(present)
        pairs == [i \in 1..Len(names) |->
                    [name |-> names[i],
                     count |-> Count(present, LAMBDA c : c = names[i])]]
    IN  CHOOSE sorted \in {SortBy(ps, LAMBDA x, y : x.count > y.count) : ps \in {pairs}} : TRUE

\* (Judge 1 == name) | ... | (Judge 5 == name)
JudgedBy(r, name) == \E k \in 1..JUDGE_SLOTS : EqStrCell(r.Judges[k], name)

\* tools.py:712-749, judge_dancer_frequency; win_rate_pct is in tenths of a
\* percent.  Reading a judge column the table does not have raises KeyError,
\* head() of a limit that is no integer raises TypeError.
JudgeDancerFrequency(f, df, limit) ==
    LET judge_name == Get(f, "judge_name", Null)
        judge_contests == SelectRows(df, LAMBDA r : JudgedBy(r, judge_name))
        male_counts == DfHead(ValueCounts(Column(judge_contests, LAMBDA r : r.Male)), limit.n)
    IN  IF ~Truthy(judge_name)
        THEN ToolError("judge_name required for this analysis", "")
        ELSE IF ~HasJudgeColumns(df) THEN ToolError("Analysis failed", "KeyError")
        ELSE IF limit.t # "int" THEN ToolError("Analysis failed", "TypeError")
        ELSE ToolResult(
                [judge |-> judge_name,
                 total_contests_judged |-> Len(judge_contests),
                 results |->
                    [i \in 1..Len(male_counts) |->
                        LET wins == Count(judge_contests, LAMBDA r :
                                        r.Male = male_counts[i].name /\ r.Placement = 1)
                        IN  [dancer |-> male_counts[i].name,
                             count |-> male_counts[i].count,
                             wins_when_judged |-> wins,
                             win_rate_pct |-> RoundHalfEven(1000 * wins, male_counts[i].count)]]])

\* combinations(sorted(judges), 2) for the judges present in one row
RowPanels(r) ==
    LET judges == SortBy(SelectSeq(r.Judges, LAMBDA c : c # NaN), NameLess)
        n == Len(judges)
        index_pairs == SelectSeq([p \in 1..(n * n) |-> <<((p - 1) \div n) + 1, ((p - 1) % n) + 1>>],
                                 LAMBDA ab : ab[1] < ab[2])
    IN  [p \in 1..Len(index_pairs) |-> <<judges[index_pairs[p][1]], judges[index_pairs[p][2]]>>]

RECURSIVE Panels(_)
Panels(rows) ==
    IF rows = <<>> THEN <<>>
    ELSE Panels(SubSeq(rows, 1, Len(rows) - 1)) \o RowPanels(rows[Len(rows)])

\* tools.py:751-784, judge_panel_combinations (row.get of a judge column
\* the table does not have gives None, which is no judge)
JudgePanelCombinations(f, df, limit) ==
    LET min_occ == Get(f, "min_occurrences", Int_(DEFAULT_MIN_PANELS))
        panels == IF HasJudgeColumns(df) THEN Panels(df) ELSE <<>>
        panel_counts == SelectSeq(Tally(panels), LAMBDA pc : pc.count >= min_occ.n)
    IN  IF min_occ.t # "int" \/ limit.t # "int"
        THEN ToolError("Analysis failed", "TypeError")
        ELSE ToolResult(
                [min_occurrences |-> min_occ,
                 total_unique_combinations |-> Len(panel_counts),
                 results |-> DfHead(panel_counts, limit.n)])

\* tools.py:786-838, judge_dancer_outcomes; the rates are in tenths of a
\* percent (vs_overall, the difference of two of them, is left out)
JudgeDancerOutcomes(f, df, limit) ==
    LET dancer_name == Get(f, "dancer_name", Null)
        min_contests == Get(f, "min_occurrences", Int_(DEFAULT_MIN_CONTESTS))
        dancer_df == RowsOf(df, dancer_name)
        judges == Distinct(JudgeCells(df, JUDGE_SLOTS))
        stats == [i \in 1..Len(judges) |->
                    LET with_judge == SelectRows(dancer_df, LAMBDA r : r.Judges[1] = judges[i]
                                          \/ r.Judges[2] = judges[i] \/ r.Judges[3] = judges[i]
                                          \/ r.Judges[4] = judges[i] \/ r.Judges[5] = judges[i])
                    IN  [judge |-> judges[i],
                         contests |-> Len(with_judge),
                         wins |-> Wins(with_judge),
                         win_rate_pct |-> IF Len(with_judge) = 0 THEN 0
                                          ELSE RoundHalfEven(1000 * Wins(with_judge), Len(with_judge))]]
        judge_stats == SelectSeq(stats, LAMBDA st : st.contests >= min_contests.n)
        results == SortBy(judge_stats, LAMBDA x, y : x.win_rate_pct > y.win_rate_pct)
    IN  IF ~Truthy(dancer_name)
        THEN ToolError("dancer_name required for this analysis", "")
        ELSE IF Len(dancer_df) = 0
        THEN ToolError("No records found for dancer_name", "")
        ELSE IF ~HasJudgeColumns(df) THEN ToolError("Analysis failed", "KeyError")
        ELSE IF min_contests.t # "int" \/ limit.t # "int"
        THEN ToolError("Analysis failed", "TypeError")
        ELSE ToolResult(
                [dancer |-> dancer_name,
                 overall_contests |-> Len(dancer_df),
                 overall_wins |-> Wins(dancer_df),
                 overall_win_rate_pct |-> RoundHalfEven(1000 * Wins(dancer_df), Len(dancer_df)),
                 min_contests_threshold |-> min_contests,
                 judge_specific_outcomes |-> DfHead(results, limit.n)])

\* The names, of either column, in the rows of every division
AllDancers(df, division) ==
    ({df[i].Male : i \in 1..Len(df)} \cup {df[i].Female : i \in 1..Len(df)}) \ {NaN}

\* tools.py:842-853, the names, of either column, in the rows of one
\* division
DivisionDancers(df, division) ==
    LET rows == SelectRows(df, LAMBDA r : r.Division = division)
    IN  ({rows[i].Male : i \in 1..Len(rows)} \cup {rows[i].Female : i \in 1..Len(rows)}) \ {NaN}

\* tools.py:840-861, retention_analysis; retention_rate_pct is in tenths of
\* a percent
RetentionAnalysis(df) ==
    LET amateur_dancers == DivisionDancers(df, "Amateur")
        pro_dancers == DivisionDancers(df, "Pro")
        made_it_to_pro == amateur_dancers \cap pro_dancers
    IN  ToolResult(
            [total_amateur_dancers |-> Cardinality(amateur_dancers),
             reached_pro |-> Cardinality(made_it_to_pro),
             retention_rate_pct |->
                 IF amateur_dancers # {}
                 THEN RoundHalfEven(1000 * Cardinality(made_it_to_pro),
                                    Cardinality(amateur_dancers))
                 ELSE 0,
             still_amateur_only |->
                 Cardinality(amateur_dancers) - Cardinality(made_it_to_pro)])

\* Every dancer of both divisions taken
AnyProgression(years_to_pro) == TRUE
\* tools.py:892, `if years_to_pro > 0`
Progressed(years_to_pro) == years_to_pro > 0

\* The first year of the dancer in a division
FirstYear(df, dancer, division) ==
    YearMin(SelectRows(df, LAMBDA r : /\ (r.Male = dancer \/ r.Female = dancer)
                                      /\ r.Division = division))

RECURSIVE SumOf(_, _)
SumOf(f, S) ==
    IF S = {} THEN 0
    ELSE LET x == CHOOSE z \in S : TRUE
         IN  f[x] + SumOf(f, S \ {x})

\* tools.py:863-903, career_progression_time; the average is in tenths of
\* a year
CareerProgressionTime(df) ==
    LET made_it == DivisionDancers(df, "Amateur") \cap DivisionDancers(df, "Pro")
        years_to_pro == [d \in made_it |->
                            FirstYear(df, d, "Pro") - FirstYear(df, d, "Amateur")]
        counted == {d \in made_it : Progressed(years_to_pro[d])}
        progression_times == {years_to_pro[d] : d \in counted}
    IN  ToolResult(
            [dancers_analyzed |-> Cardinality(counted),
             avg_years_to_pro |->
                 IF counted = {} THEN Null
                 ELSE Int_(RoundHalfEven(10 * SumOf(years_to_pro, counted),
                                         Cardinality(counted))),
             fastest_progression_years |->
                 IF counted = {} THEN Null
                 ELSE Int_(CHOOSE t \in progression_times :
                              \A u \in progression_times : t <= u),
             slowest_progression_years |->
                 IF counted = {} THEN Null
                 ELSE Int_(CHOOSE t \in progression_times :
                              \A u \in progression_times : t >= u)])

\* tools.py:669-913 for the judge analyses, retention_analysis and
\* career_progression_time, and for an analysis_type that no branch
\* implements (tools.py:905-906); everything is inside the try
execute_analyze_csa_data(analysis_type, filters, limit, file) ==
    LET df == file
        step == AnalysisFilterStep(filters, df)
    IN  IF ~step.ok
        THEN ToolError("Analysis failed", step.exc_type)
        ELSE CASE analysis_type = Str("judge_dancer_frequency") ->
                    JudgeDancerFrequency(filters.m, step.rows, limit)
               [] analysis_type = Str("judge_panel_combinations") ->
                    JudgePanelCombinations(filters.m, step.rows, limit)
               [] analysis_type = Str("judge_dancer_outcomes") ->
                    JudgeDancerOutcomes(filters.m, step.rows, limit)
               [] analysis_type = Str("retention_analysis") -> RetentionAnalysis(step.rows)
               [] analysis_type = Str("career_progression_time") ->
                    CareerProgressionTime(step.rows)
               [] OTHER -> ToolError("Analysis type not yet implemented", "")

(***************************************************************************)
(* update_archive_data (scripts/update_data.py): the offline merge.        *)
(***************************************************************************)
\* NaN sorts last
ContestLess(a, b) ==
    IF a = NaNChars THEN FALSE
    ELSE IF b = NaNChars THEN TRUE
    ELSE CharsLess(a, b)

DivisionRank(d) ==
    CASE d = "Amateur" -> 1
      [] d = "Novice"  -> 2
      [] d = "Pro"     -> 3
      [] OTHER         -> 4

\* sort_values(['Year', 'Contest', 'Division', 'Placement'])
RowBefore(x, y) ==
    \/ x.Year < y.Year
    \/ /\ x.Year = y.Year
       /\ \/ ContestLess(x.Contest, y.Contest)
          \/ /\ x.Contest = y.Contest
             /\ \/ DivisionRank(x.Division) < DivisionRank(y.Division)
                \/ /\ DivisionRank(x.Division) = DivisionRank(y.Division)
                   /\ x.Placement < y.Placement

Ids(rows) == {rows[i].archive_id : i \in 1..Len(rows)}

\* Every row kept
KeepAll(rows) == rows

\* drop_duplicates(subset=['Archive ID'], keep='last')
DropDuplicatesKeepLast(rows) ==
    LET Last(i) == \A j \in (i + 1)..Len(rows) : rows[j].archive_id # rows[i].archive_id
        keep == {i \in 1..Len(rows) : Last(i)}
        Nth(k) == CHOOSE i \in keep : Cardinality({j \in keep : j <= i}) = k
    IN  [k \in 1..Cardinality(keep) |-> rows[Nth(k)]]

\* DataFrame.update: a cell of `new` that is not NaN overwrites the cell
Overwrite(old, new) ==
    [archive_id   |-> old.archive_id,
     Contest      |-> IF new.Contest = NaNChars THEN old.Contest ELSE new.Contest,
     Organization |-> IF new.Organization = NaN THEN old.Organization ELSE new.Organization,
     Year         |-> new.Year,
     Placement    |-> new.Placement,
     Division     |-> IF new.Division = NaN THEN old.Division ELSE new.Division,
     Female       |-> IF new.Female = NaN THEN old.Female ELSE new.Female,
     Male         |-> IF new.Male = NaN THEN old.Male ELSE new.Male]

\* update_data.py:59-81: the table written back to the archive file
MergeTables(existing_df, new_df) ==
    LET new_df_clean == DropDuplicatesKeepLast(new_df)
        records_to_update ==
            SelectSeq(new_df_clean, LAMBDA r : r.archive_id \in Ids(existing_df))
        records_to_add ==
            SelectSeq(new_df_clean, LAMBDA r : r.archive_id \notin Ids(existing_df))
        updated_df ==
            [i \in 1..Len(existing_df) |->
                IF \E k \in 1..Len(records_to_update) :
                      records_to_update[k].archive_id = existing_df[i].archive_id
                THEN Overwrite(existing_df[i],
                        records_to_update[CHOOSE k \in 1..Len(records_to_update) :
                            records_to_update[k].archive_id = existing_df[i].archive_id])
                ELSE existing_df[i]]
    IN  SortBy(updated_df \o records_to_add, RowBefore)

(***************************************************************************)
(* The archive of the model and the batches merged into it.                *)
(***************************************************************************)
ArchiveRows ==
    << Row(1, <<"A", "b">>, "CSA",  2008, 1, "Pro",     "Ann", "Sam West"),
       Row(2, <<"A", "b">>, "CSA",  2008, 2, "Pro",     "Bea", "Joe"),
       Row(3, <<"B", "a">>, "NSDC", 2010, 1, "Amateur", NaN,   "Joe") >>

Batches ==
    { << Row(2, <<"A", "b">>, "CSA", 2008, 1, "Amateur", "Bea", "Joe"),
         Row(4, <<"B", "a">>, "NSDC", 2012, 1, "Pro", "Ann", "Sam West") >> }

(***************************************************************************)
(* The oracle.  A response is its stop_reason, the text of its text        *)
(* blocks and its tool_use blocks, each a name and an input object.        *)
(***************************************************************************)
ToolUse(name, input) == [name |-> name, input |-> input]

ProFilter == Map([k \in {"division"} |-> Str("Pro")])

\* The tool_use blocks the oracle may send
ToolUses ==
    { \* a well-formed query
      ToolUse("query_csa_data",
              [k \in {"query_type", "filters", "limit"} |->
                  CASE k = "query_type" -> Str("top_dancers")
                    [] k = "filters"    -> ProFilter
                    [] k = "limit"      -> Int_(10)]),
      \* a limit that is no integer
      ToolUse("query_csa_data",
              [k \in {"query_type", "filters", "limit"} |->
                  CASE k = "query_type" -> Str("top_dancers")
                    [] k = "filters"    -> ProFilter
                    [] k = "limit"      -> Str("ten")]),
      \* filters that is no object, and no limit: the executor raises inside
      ToolUse("query_csa_data",
              [k \in {"query_type", "filters"} |->
                  CASE k = "query_type" -> Str("top_dancers")
                    [] k = "filters"    -> Str("Pro")]),
      \* an analysis the catalog names and the executor does not implement,
      \* with a limit that is no integer
      ToolUse("analyze_csa_data",
              [k \in {"analysis_type", "limit"} |->
                  CASE k = "analysis_type" -> Str("win_concentration_analysis")
                    [] k = "limit"         -> Str("ten")]),
      \* a tool the dispatcher does not know
      ToolUse("lookup_dancer", [k \in {"name"} |-> Str("Sam West")]) }

BlockSeqs == UNION {[1..n -> ToolUses] : n \in 0..MaxToolUses}

Response(stop_reason, text, tool_uses) ==
    [stop_reason |-> stop_reason, text |-> text, tool_uses |-> tool_uses]

\* What client.messages.create may return: a final answer, a tool request,
\* or a tool_use stop with text blocks only
OracleResponses ==
    {Response("end_turn", t, <<>>) : t \in OracleTexts}
    \cup {Response("tool_use", IF b = <<>> THEN OracleLongText ELSE EmptyText, b) :
            b \in BlockSeqs}

\* What client.messages.create may raise
TransportErrors ==
    {"RateLimitError", "APITimeoutError", "APIConnectionError", "APIStatusError"}

\* chat_handler.py:652-672, the MockResponse objects
MockResponse(text, stop_reason) == Response(stop_reason, text, <<>>)

\* A retry policy that goes on retrying a rate limit on every attempt
RetryEveryRateLimit(err, attempt) ==
    IF err = "RateLimitError" THEN "retry"
    ELSE IF err \in {"APITimeoutError", "APIConnectionError"} THEN "timeout"
    ELSE "error"

\* chat_handler.py:642-672: what one failed attempt leads to
RetryDecision(err, attempt) ==
    IF err = "RateLimitError"
    THEN IF attempt = 0 THEN "retry" ELSE "rate_limited"
    ELSE IF err \in {"APITimeoutError", "APIConnectionError"}
         THEN "timeout"
         ELSE "error"

ApologyResponse(decision) ==
    CASE decision = "rate_limited" -> MockResponse(RateLimitApology, "rate_limited")
      [] decision = "timeout"      -> MockResponse(TimeoutApology, "timeout")
      [] OTHER                     -> MockResponse(ErrorApology, "error")

(***************************************************************************)
(* The exception handler of process_query (chat_handler.py:808-837).       *)
(***************************************************************************)
\* `pattern in error_type` for the class names that occur
NameContains(name, pattern) ==
    \/ name = pattern
    \/ pattern = "NotFoundError" /\ name \in {"ModuleNotFoundError", "FileNotFoundError"}

FixedErrorTexts ==
    [k \in {"BadRequestError", "RateLimitError", "APIConnectionError", "APITimeoutError",
            "AuthenticationError", "NotFoundError", "ImportError", "FileNotFoundError"} |->
        CASE k = "BadRequestError" ->
               Text("Invalid request format. Please rephrase your question and try again.", 68, FALSE)
          [] k = "RateLimitError" ->
               Text("Too many requests. Please wait a moment before asking another question.", 71, FALSE)
          [] k = "APIConnectionError" ->
               Text("Connection issue with AI service. Please try again in a moment.", 63, FALSE)
          [] k = "APITimeoutError" ->
               Text("Request timed out. Your question might be too complex. Please try a simpler query.", 82, FALSE)
          [] k = "AuthenticationError" ->
               Text("AI service authentication issue. Please contact support.", 56, FALSE)
          [] k = "NotFoundError" ->
               Text("AI model configuration issue. Please contact support.", 53, FALSE)
          [] k = "ImportError" ->
               Text("System configuration issue. Please contact support.", 51, FALSE)
          [] k = "FileNotFoundError" ->
               Text("Database file not found. Please contact support to restore data files.", 70, FALSE)]

\* f"Processing error ({error_type}): {error_msg[:100]}. Please try ..."
ProcessingErrorText(error_type, error_msg) ==
    [body |-> "Processing error (<type>): <message>. Please try rephrasing your question or contact support if this persists.",
     len |-> 100, starts_error |-> FALSE, exc_type |-> error_type, exc_msg |-> error_msg]

ExceptionText(error_type, error_msg, msg_names_model) ==
    IF NameContains(error_type, "BadRequestError") THEN FixedErrorTexts["BadRequestError"]
    ELSE IF NameContains(error_type, "RateLimitError") THEN FixedErrorTexts["RateLimitError"]
    ELSE IF NameContains(error_type, "APIConnectionError") THEN FixedErrorTexts["APIConnectionError"]
    ELSE IF NameContains(error_type, "APITimeoutError") THEN FixedErrorTexts["APITimeoutError"]
    ELSE IF NameContains(error_type, "AuthenticationError") THEN FixedErrorTexts["AuthenticationError"]
    ELSE IF NameContains(error_type, "NotFoundError") /\ msg_names_model
         THEN FixedErrorTexts["NotFoundError"]
    ELSE IF NameContains(error_type, "ImportError") \/ NameContains(error_type, "ModuleNotFoundError")
         THEN FixedErrorTexts["ImportError"]
    ELSE IF NameContains(error_type, "FileNotFoundError") THEN FixedErrorTexts["FileNotFoundError"]
    ELSE ProcessingErrorText(error_type, error_msg)

(***************************************************************************)
(* Tool dispatch of one tool_use block (chat_handler.py:737-765).          *)
(***************************************************************************)
ExecuteTool(tool_use, file) ==
    LET input == tool_use.input IN
    CASE tool_use.name = "query_csa_data" ->
            execute_query_csa_data(Get(input, "query_type", Null),
                                   Get(input, "filters", Map(EmptyMap)),
                                   Get(input, "limit", Int_(DEFAULT_QUERY_LIMIT)),
                                   file)
      [] tool_use.name = "analyze_csa_data" ->
            execute_analyze_csa_data(Get(input, "analysis_type", Null),
                                     Get(input, "filters", Map(EmptyMap)),
                                     Get(input, "limit", Int_(DEFAULT_ANALYZE_LIMIT)),
                                     file)
      [] OTHER -> ToolError("Tool execution failed", "")

\* Whether the tool reads the archive file when called
ReadsFile(tool_use) ==
    \/ tool_use.name = "analyze_csa_data"
    \/ /\ tool_use.name = "query_csa_data"
       /\ Get(tool_use.input, "limit", Int_(DEFAULT_QUERY_LIMIT)).t = "int"

(***************************************************************************)
(* State.                                                                  *)
(***************************************************************************)
VARIABLES
    client,          \* chat_handler.client: "configured" or "none"
    now,             \* time.time()
    query_cache,     \* query_cache.cache: key -> entry
    response_cache,  \* _response_cache: key -> (data, timestamp)
    csv_file,        \* the rows of data/Shaggy_Shag_Archives_Final.csv on disk
    csv_data,        \* data_loader.csv_data, read once at process start
    pc,              \* where process_query stands
    user_question,   \* its argument
    messages,        \* its message history: role and tool_use ids
    response,        \* the last value of _call_anthropic_with_retry
    attempt,         \* the loop variable of _call_anthropic_with_retry
    tool_idx,        \* the tool_use block being dispatched
    tool_results,    \* the tool_result blocks of the round
    returned,        \* what process_query returned
    raised,          \* the exception its handler caught, if any
    rounds,          \* ToolDispatch rounds of this request
    requests,        \* process_query calls so far
    merges,          \* archive rewrites so far
    attempts_made,   \* requests sent by the current _call_anthropic_with_retry
    tables_read,     \* the tables the tools of this question were run on
    oracle_called,   \* whether this question went to the oracle
    tool_called,     \* whether a tool was dispatched for this question
    filter_input,    \* the arguments of a direct execute_query_csa_data call
    filter_output,   \* what that call returned
    workers,         \* the request threads inside the cache methods
    backup_file,     \* the backup update_archive_data wrote, if any, and its rows
    update_run,      \* a run of update_archive_data: its arguments and locals
    message_count,   \* simple_daily_count.message_count of today
    askers,          \* where each /api/ask request thread stands
    processed        \* the questions passed to process_query today

serverVars == <<client, now, query_cache, response_cache, csv_file, csv_data, pc,
                user_question, messages, response, attempt, tool_idx, tool_results,
                returned, raised, rounds, requests, merges, attempts_made,
                tables_read, oracle_called, tool_called>>

\* What the serving process of one request at a time never touches
sideVars == <<update_run, message_count, askers, processed>>
auxVars == <<filter_input, filter_output, workers, backup_file, sideVars>>

vars == <<serverVars, auxVars>>

cacheVars == <<query_cache, response_cache>>
requestVars == <<user_question, messages, response, attempt, tool_idx, tool_results,
                 returned, raised, rounds, attempts_made,
                 tables_read, oracle_called, tool_called>>

NoCache == [k \in {} |-> None]

InitProcess ==
    /\ client \in {"configured", "none"}
    /\ now = 0
    /\ query_cache = NoCache
    /\ response_cache = NoCache
    /\ pc = "idle"
    /\ user_question = None
    /\ messages = <<>>
    /\ response = None
    /\ attempt = 0
    /\ tool_idx = 0
    /\ tool_results = <<>>
    /\ returned = None
    /\ raised = None
    /\ rounds = 0
    /\ requests = 0
    /\ merges = 0
    /\ attempts_made = 0
    /\ tables_read = {}
    /\ oracle_called = FALSE
    /\ tool_called = FALSE

Threads == {"t1", "t2"}

\* A thread outside the cache methods
Outside == [pc |-> "outside", query |-> None, entry |-> None, result |-> None]

\* No run of update_archive_data, and no /api/ask request yet today
InitSide ==
    /\ backup_file = None
    /\ update_run = None
    /\ message_count = 0
    /\ askers = [t \in Threads |-> "idle"]
    /\ processed = 0

\* app.py:28-41, initialize_data: the archive is read into csv_data
InitServer ==
    /\ InitProcess
    /\ csv_file = ArchiveRows
    /\ csv_data = csv_file

\* A thread that is in no cache method (the last one may have raised)
Free(w) == workers[w].pc \in {"outside", "raised"}

Init ==
    /\ InitServer
    /\ filter_input = None
    /\ filter_output = None
    /\ workers = [w \in Threads |-> Outside]
    /\ InitSide

\* `if cached_response:` on a value of a cache lookup
IsHit(v) == v # None /\ v.len > 0

UserMessage(content) == [role |-> "user", content |-> content]
AssistantMessage(content) == [role |-> "assistant", content |-> content]

\* messages.append within the recorded horizon
Record(msgs, m) == IF Len(msgs) < 1 + 2 * MaxRounds THEN Append(msgs, m) ELSE msgs

\* The ids the oracle gives the tool_use blocks of a response
BlockId(round, i) == <<round, i>>

(***************************************************************************)
(* process_query, chat_handler.py:674-712: the cache lookups and the       *)
(* first message.                                                          *)
(***************************************************************************)
Start(q) ==
    /\ pc \in {"idle", "done"}
    /\ requests < MaxRequests
    /\ requests' = requests + 1
    /\ user_question' = q
    /\ raised' = None
    /\ rounds' = 0
    /\ attempt' = 0
    /\ attempts_made' = 0
    /\ tables_read' = {}
    /\ oracle_called' = FALSE
    /\ tool_called' = FALSE
    /\ tool_idx' = 0
    /\ tool_results' = <<>>
    /\ response' = None
    /\ IF client = "none"
       THEN /\ returned' = NotConfiguredText
            /\ pc' = "done"
            /\ messages' = <<>>
            /\ UNCHANGED cacheVars
       ELSE LET smart == IF should_cache_query(q)
                         THEN QueryCacheGet(query_cache, q, now)
                         ELSE <<None, query_cache>>
                legacy == GetCachedResponse(response_cache, GetCacheKey(q), now)
            IN  IF IsHit(smart[1])
                THEN /\ returned' = smart[1]
                     /\ pc' = "done"
                     /\ messages' = <<>>
                     /\ query_cache' = smart[2]
                     /\ UNCHANGED response_cache
                ELSE /\ query_cache' = smart[2]
                     /\ response_cache' = legacy[2]
                     /\ IF IsHit(legacy[1])
                        THEN /\ returned' = legacy[1]
                             /\ pc' = "done"
                             /\ messages' = <<>>
                        ELSE /\ returned' = None
                             /\ pc' = "call"
                             /\ messages' = <<UserMessage("question")>>
    /\ UNCHANGED <<client, now, csv_file, csv_data, merges, auxVars>>

(***************************************************************************)
(* _call_anthropic_with_retry, chat_handler.py:634-672: one attempt.       *)
(***************************************************************************)
\* client.messages.create returns
OracleAnswers(r) ==
    /\ pc = "call"
    /\ attempt <= max_retries
    /\ response' = r
    /\ attempts_made' = attempts_made + 1
    /\ oracle_called' = TRUE
    /\ pc' = "loop"
    /\ UNCHANGED <<client, now, cacheVars, csv_file, csv_data, user_question, messages,
                   attempt, tool_idx, tool_results, returned, raised, rounds, requests,
                   merges, tables_read, tool_called, auxVars>>

\* client.messages.create raises
OracleFails(err) ==
    /\ pc = "call"
    /\ attempt <= max_retries
    /\ attempts_made' = attempts_made + 1
    /\ oracle_called' = TRUE
    /\ LET decision == RetryDecision(err, attempt) IN
       IF decision = "retry"
       THEN \* the for loop goes on; past its last turn the function ends
            \* without a return statement
            /\ attempt' = attempt + 1
            /\ IF attempt + 1 <= max_retries
               THEN /\ pc' = "call"
                    /\ UNCHANGED response
               ELSE /\ pc' = "loop"
                    /\ response' = None
       ELSE /\ response' = ApologyResponse(decision)
            /\ pc' = "loop"
            /\ UNCHANGED attempt
    /\ UNCHANGED <<client, now, cacheVars, csv_file, csv_data, user_question, messages,
                   tool_idx, tool_results, returned, raised, rounds, requests,
                   merges, tables_read, tool_called, auxVars>>

(***************************************************************************)
(* process_query, chat_handler.py:716-784: the tool loop.                  *)
(***************************************************************************)
RequestsTools(r) ==
    r # None /\ r.stop_reason = "tool_use" /\ Len(r.tool_uses) > 0

BlockIds(round, n) == [i \in 1..n |-> BlockId(round, i)]

\* The handler of chat_handler.py:808-837 takes over and process_query
\* returns; its locals are gone
Handle(exc_type, exc_msg) ==
    /\ raised' = [exc_type |-> exc_type, exc_msg |-> exc_msg]
    /\ returned' = ExceptionText(exc_type, exc_msg, FALSE)
    /\ pc' = "done"
    /\ response' = None
    /\ tool_results' = <<>>
    /\ tool_idx' = 0
    /\ attempt' = 0
    /\ attempts_made' = 0

\* 717-733: the oracle asked for tools; its response joins the history
ToolDispatch ==
    /\ pc = "loop"
    /\ RequestsTools(response)
    /\ rounds' = IF rounds < MaxRounds THEN rounds + 1 ELSE rounds
    /\ messages' = Record(messages,
                     AssistantMessage(BlockIds(rounds', Len(response.tool_uses))))
    /\ tool_results' = <<>>
    /\ tool_idx' = 1
    /\ pc' = "tools"
    /\ UNCHANGED <<client, now, cacheVars, csv_file, csv_data, user_question, response,
                   attempt, returned, raised, requests, merges, attempts_made, tables_read,
                   oracle_called, tool_called, auxVars>>

\* A block that names no tool_use block
AnonymousBlock(tool_use_id, content) ==
    [type |-> "tool_result", tool_use_id |-> <<0, 0>>, content |-> content]
\* 761-765
ToolResultBlock(tool_use_id, content) ==
    [type |-> "tool_result", tool_use_id |-> tool_use_id, content |-> content]

\* 737-782: one tool of the round; after the last one the results go back
\* to the oracle in one user message
ExecTool ==
    /\ pc = "tools"
    /\ \E tool_result \in {ExecuteTool(response.tool_uses[tool_idx], csv_file)} :
       LET tool_use == response.tool_uses[tool_idx]
           results == Append(tool_results,
                             ToolResultBlock(BlockId(rounds, tool_idx), tool_result))
       IN  /\ tables_read' = IF ReadsFile(tool_use)
                             THEN tables_read \cup {csv_file}
                             ELSE tables_read
           /\ IF tool_result.kind = "raise"
              THEN /\ Handle(tool_result.exc_type, tool_result.exc_msg)
                   /\ UNCHANGED messages
              ELSE /\ UNCHANGED <<returned, raised>>
                   /\ IF tool_idx < Len(response.tool_uses)
                      THEN /\ tool_results' = results
                           /\ tool_idx' = tool_idx + 1
                           /\ UNCHANGED <<pc, response, messages, attempt, attempts_made>>
                      ELSE \* the next oracle call replaces response; the
                           \* results live on in the history
                           /\ messages' =
                                Record(messages,
                                       UserMessage([i \in 1..Len(results) |->
                                                      results[i].tool_use_id]))
                           /\ tool_results' = <<>>
                           /\ tool_idx' = 0
                           /\ response' = None
                           /\ attempt' = 0
                           /\ attempts_made' = 0
                           /\ pc' = "call"
    /\ tool_called' = TRUE
    /\ UNCHANGED <<client, now, cacheVars, csv_file, csv_data, user_question,
                   rounds, requests, merges, oracle_called, auxVars>>

(***************************************************************************)
(* process_query, chat_handler.py:786-806: the final text and the caches.  *)
(***************************************************************************)
Cacheable(final_text) ==
    /\ final_text.len > 0
    /\ ~final_text.starts_error
    /\ final_text.len > MIN_CACHED_TEXT_LEN

QueryTtl(q) == IF NormText[q.norm].stat THEN STAT_TTL ELSE DEFAULT_TTL

Final ==
    /\ pc = "loop"
    /\ ~RequestsTools(response)
    /\ IF response = None
       THEN \* response.stop_reason on None
            /\ Handle("AttributeError", "'NoneType' object has no attribute 'stop_reason'")
            /\ UNCHANGED cacheVars
       ELSE LET final_text == Concat(EmptyText, response.text) IN
            /\ returned' = final_text
            /\ raised' = None
            /\ pc' = "done"
            /\ response' = None
            /\ tool_results' = <<>>
            /\ tool_idx' = 0
            /\ attempt' = 0
            /\ attempts_made' = 0
            /\ IF Cacheable(final_text)
               THEN /\ response_cache' \in CacheResponse(response_cache,
                                              GetCacheKey(user_question), final_text, now)
                    /\ query_cache' =
                         IF should_cache_query(user_question)
                         THEN QueryCacheSet(query_cache, user_question, final_text,
                                            QueryTtl(user_question), now)
                         ELSE query_cache
               ELSE UNCHANGED cacheVars
    /\ UNCHANGED <<client, now, csv_file, csv_data, user_question, messages,
                   rounds, requests, merges, tables_read, oracle_called, tool_called, auxVars>>

(***************************************************************************)
(* The environment: the clock, read in steps of minutes, which a request   *)
(* (over within the 30 s of the upstream timeout) sees standing still, and *)
(* the offline merge rewriting the file.                                   *)
(***************************************************************************)
Tick ==
    /\ pc \in {"idle", "done"}
    /\ \A w \in Threads : Free(w)
    /\ now + ClockStep <= MaxTime
    /\ now' = now + ClockStep
    /\ UNCHANGED <<client, cacheVars, csv_file, csv_data, pc, requestVars, requests, merges, auxVars>>

\* update_data.py:119, update_archive_data(new_file) run to its end: the
\* backup of line 53 and final_df.to_csv(original_file) of line 84
OfflineMerge(batch) ==
    /\ merges < MaxMerges
    /\ merges' = merges + 1
    /\ backup_file' = [rows |-> csv_file]
    /\ csv_file' = MergeTables(csv_file, batch)
    /\ UNCHANGED <<client, now, cacheVars, csv_data, pc, requestVars, requests,
                   filter_input, filter_output, workers, sideVars>>

Worker ==
    \/ \E r \in OracleResponses : OracleAnswers(r)
    \/ \E err \in TransportErrors : OracleFails(err)
    \/ ToolDispatch
    \/ ExecTool
    \/ Final

\* The serving process on its own: the archive file is left alone
Next ==
    \/ \E q \in Questions : Start(q)
    \/ Worker
    \/ Tick

Spec == Init /\ [][Next]_vars

\* The serving process with the clock standing still, and a request worker
\* that can take a step takes one: the oracle call returns or fails within
\* its timeout, and nothing else in process_query blocks.
FairNext ==
    \/ \E q \in LoopQuestions : Start(q)
    \/ Worker

FairSpec == Init /\ [][FairNext]_vars /\ WF_vars(Worker)

\* The serving process with the offline merge run beside it
MergeNext ==
    \/ \E q \in MergeQuestions : Start(q)
    \/ Worker
    \/ Tick
    \/ \E batch \in Batches : OfflineMerge(batch)

MergeSpec == Init /\ [][MergeNext]_vars

(***************************************************************************)
(* Properties of the serving process.                                      *)
(***************************************************************************)
Apologies == {ApologyResponse(d) : d \in {"rate_limited", "timeout", "error"}}

FixedApologyTexts ==
    {FixedErrorTexts[k] : k \in DOMAIN FixedErrorTexts}
    \cup {RateLimitApology, TimeoutApology, ErrorApology}

\* C1: every process_query that reaches the oracle terminates, whatever the
\* oracle answers, also when every answer asks for tools again (the round
\* bound the loop is said to have makes it return).
C1_ProcessQueryTerminates == (pc = "call") ~> (pc = "done")

\* C2: one call of _call_anthropic_with_retry sends at most max_retries + 1
\* = 2 requests; it always hands process_query a value, which after
\* transport failures is one of the three fixed apology responses; no
\* transport error reaches the handler of process_query.
C2_RetryThenApology ==
    /\ attempts_made <= max_retries + 1
    /\ pc = "loop" => /\ response # None
                      /\ response \in OracleResponses \cup Apologies
    /\ raised # None => raised.exc_type \notin TransportErrors \cup {"AttributeError"}

\* Both attempts were refused with a rate limit and the apology came back
C2_Witness ==
    /\ pc = "loop"
    /\ attempts_made = 2
    /\ response = ApologyResponse("rate_limited")

\* A tool_use block that cannot be served: a tool the dispatcher does not
\* know, a limit that is no integer, or filters that is no object
InvalidBlock(b) ==
    \/ b.name \notin {"query_csa_data", "analyze_csa_data"}
    \/ Get(b.input, "limit", Int_(DEFAULT_QUERY_LIMIT)).t # "int"
    \/ Get(b.input, "filters", Map(EmptyMap)).t # "map"

\* C3: dispatching a tool_use block that fails internally puts a structured
\* error into the round's tool results and goes on, to the next block or to
\* the next oracle call; process_query is not aborted.
C3_ToolFailureBecomesResult ==
    [][ (pc = "tools" /\ tool_called' /\ InvalidBlock(response.tool_uses[tool_idx]))
        => /\ pc' \in {"tools", "call"}
           /\ raised' = None
           /\ pc' = "tools" => tool_results'[tool_idx].content.kind = "error" ]_vars

\* C4: whenever process_query returns from its exception handler, the text
\* is one of the fixed apology strings and carries nothing of the
\* exception's type name or message.
C4_FixedApologyOnFailure ==
    (pc = "done" /\ raised # None)
        => /\ returned \in FixedApologyTexts
           /\ returned.exc_type = ""
           /\ returned.exc_msg = ""

\* The answers the two caches hold for q that have not expired at time t
LiveAnswers(q, t) ==
    {query_cache[k].result :
        k \in {k \in {GenerateKey(q)} \cap DOMAIN query_cache :
                 t <= query_cache[k].expires_at}}
    \cup {response_cache[k].data :
            k \in {k \in {GetCacheKey(q)} \cap DOMAIN response_cache :
                     t - response_cache[k].timestamp < CACHE_EXPIRY_SECONDS}}

\* C5: when process_query starts on a question for which a cache holds an
\* entry that has not expired, it returns that entry's answer at once: no
\* oracle call, no tool, no message built.
C5_CacheHitReturnsAtOnce ==
    [][ \A q \in Questions :
          (requests' = requests + 1 /\ user_question' = q /\ LiveAnswers(q, now) # {})
          => /\ pc' = "done"
             /\ returned' \in LiveAnswers(q, now)
             /\ ~oracle_called'
             /\ ~tool_called'
             /\ messages' = <<>> ]_vars

\* The second question was answered from the cache, without the oracle
C5_Witness ==
    /\ pc = "done"
    /\ requests = 2
    /\ client = "configured"
    /\ ~oracle_called
    /\ returned = OracleLongText
    /\ LiveAnswers(user_question, now) # {}

\* C6: after process_query returns for a question the cacheability
\* predicate excludes (short, or time-relative), neither the QueryCache nor
\* the legacy response cache holds an entry for it.
C6_UncacheableNotCached ==
    (pc = "done" /\ user_question # None /\ ~should_cache_query(user_question))
        => /\ GenerateKey(user_question) \notin DOMAIN query_cache
           /\ GetCacheKey(user_question) \notin DOMAIN response_cache

(***************************************************************************)
(* execute_query_csa_data called on its own: a table, a filter             *)
(* specification, a query type and a limit, and its result.                *)
(***************************************************************************)
\* keys in one filter specification
MaxFilterKeys == 2

FilterKeys == {"division", "organization", "placement", "male_name", "female_name",
               "year", "start_year", "end_year", "contest"}

FilterValues ==
    [k \in FilterKeys |->
        CASE k = "division"     -> {Str("Pro"), Str("Amateur"), Str("")}
          [] k = "organization" -> {Str("CSA"), Str("Both")}
          [] k = "placement"    -> {Int_(1), Int_(0), Null}
          [] k = "male_name"    -> {Str("Joe"), Str("Nobody")}
          [] k = "female_name"  -> {Str("Ann")}
          [] k = "year"         -> {Int_(2008), Int_(0), Str("2008")}
          [] k = "start_year"   -> {Int_(2008), Str("2008")}
          [] k = "end_year"     -> {Int_(2009), Int_(2000)}
          [] k = "contest"      -> {Chars(<<"a">>), Chars(<<"(">>)}]

FilterSpecs ==
    UNION {{f \in [K -> UNION {FilterValues[k] : k \in K}] :
               \A k \in K : f[k] \in FilterValues[k]} :
           K \in {K \in SUBSET FilterKeys : Cardinality(K) <= MaxFilterKeys}}

FilterTables == {<<>>, ArchiveRows} \cup {MergeTables(ArchiveRows, b) : b \in Batches}

FilterInputs ==
    [query_type : {Str("dancer_record"), Str("top_dancers")},
     filters : {Map(f) : f \in FilterSpecs},
     limit : {Int_(DEFAULT_QUERY_LIMIT)}]

FilterInit ==
    /\ InitProcess
    /\ csv_file \in FilterTables
    /\ csv_data = csv_file
    /\ filter_input \in FilterInputs
    /\ filter_output = None
    /\ workers = [w \in Threads |-> Outside]
    /\ InitSide

RunQuery ==
    /\ filter_output = None
    /\ filter_output' = execute_query_csa_data(filter_input.query_type,
                                               filter_input.filters,
                                               filter_input.limit, csv_file)
    /\ UNCHANGED <<serverVars, filter_input, workers, backup_file, sideVars>>

FilterNext == RunQuery

FilterSpec == FilterInit /\ [][FilterNext]_vars

\* C9: every tool of a question is run on the table that was loaded when
\* the process started, whatever was written to the archive file since; so
\* all tools of one question are run on one table.
C9_ToolsReadStartupSnapshot ==
    /\ tables_read \subseteq {csv_data}
    /\ Cardinality(tables_read) <= 1

\* C10: the filter step of execute_query_csa_data reports at most as many
\* filtered records as the table has, and exactly as many when the filter
\* specification is empty.
C10_FilteredAtMostTotal ==
    (filter_output # None /\ filter_output.kind = "result")
        => /\ filter_output.fields.total_database_records = Len(csv_file)
           /\ filter_output.fields.filtered_records
                 <= filter_output.fields.total_database_records
           /\ filter_input.filters = Map(EmptyMap)
                 => filter_output.fields.filtered_records
                       = filter_output.fields.total_database_records

\* A filter specification that keeps some rows of the table and drops others
C10_Witness ==
    /\ filter_output # None
    /\ filter_output.kind = "result"
    /\ filter_input.filters # Map(EmptyMap)
    /\ filter_output.fields.filtered_records > 0
    /\ filter_output.fields.filtered_records
          < filter_output.fields.total_database_records

(***************************************************************************)
(* The two answer caches under concurrent request threads (app.py:390,     *)
(* the threaded server).  A thread is inside QueryCache.get between its    *)
(* statements; the methods of the legacy cache run under _cache_lock, one  *)
(* at a time, and QueryCache.set is a single store of a finished entry.    *)
(***************************************************************************)
\* calls of cache methods begun in one behaviour
MaxCacheOps == 4

\* Questions that should_cache_query accepts
CacheQuestions == {Question(1, 1), Question(4, 1), Question(5, 1)}

CacheInit ==
    /\ InitServer
    /\ client = "configured"
    /\ filter_input = None
    /\ filter_output = None
    /\ workers = [w \in Threads |-> Outside]
    /\ InitSide

\* One more call of a cache method begins
BeginOp ==
    /\ requests < MaxCacheOps
    /\ requests' = requests + 1

cacheOpVars == <<client, csv_file, csv_data, pc, requestVars, merges, now,
                 filter_input, filter_output, backup_file, sideVars>>

\* query_cache.py:26-29: the key, and `if key not in self.cache: return None`
GetEnter(w, q) ==
    /\ Free(w)
    /\ BeginOp
    /\ workers' = [workers EXCEPT ![w] =
                     IF GenerateKey(q) \in DOMAIN query_cache
                     THEN [pc |-> "get_lookup", query |-> q, entry |-> None, result |-> None]
                     ELSE Outside]
    /\ UNCHANGED <<cacheOpVars, cacheVars>>

\* query_cache.py:31-35: entry = self.cache[key], which raises KeyError when
\* the key is gone, and the expiry test
GetLookup(w) ==
    /\ workers[w].pc = "get_lookup"
    /\ LET key == GenerateKey(workers[w].query) IN
       workers' = [workers EXCEPT ![w] =
                     IF key \notin DOMAIN query_cache
                     THEN [pc |-> "raised", query |-> @.query, entry |-> None,
                           result |-> "KeyError"]
                     ELSE [pc |-> IF Expired(query_cache[key], now)
                                  THEN "get_delete" ELSE "get_touch",
                           query |-> @.query,
                           entry |-> [entry |-> query_cache[key], current_time |-> now],
                           result |-> None]]
    /\ UNCHANGED <<cacheOpVars, cacheVars, requests>>

\* query_cache.py:36-37: del self.cache[key], which raises KeyError when
\* the key is gone; return None
GetDelete(w) ==
    /\ workers[w].pc = "get_delete"
    /\ LET key == GenerateKey(workers[w].query) IN
       IF key \in DOMAIN query_cache
       THEN /\ query_cache' = [k \in DOMAIN query_cache \ {key} |-> query_cache[k]]
            /\ workers' = [workers EXCEPT ![w] = Outside]
       ELSE /\ workers' = [workers EXCEPT ![w] =
                             [pc |-> "raised", query |-> @.query, entry |-> None,
                              result |-> "KeyError"]]
            /\ UNCHANGED query_cache
    /\ UNCHANGED <<cacheOpVars, response_cache, requests>>

\* query_cache.py:40-44: the entry object is touched and its result
\* returned; the cache shows the touch if it still holds that object
\* (known by the fields that are never rewritten)
GetTouch(w) ==
    /\ workers[w].pc = "get_touch"
    /\ LET key == GenerateKey(workers[w].query)
           entry == workers[w].entry.entry
           held == /\ key \in DOMAIN query_cache
                   /\ query_cache[key].created_at = entry.created_at
                   /\ query_cache[key].expires_at = entry.expires_at
                   /\ query_cache[key].result = entry.result
       IN  /\ query_cache' =
                IF held
                THEN [query_cache EXCEPT
                        ![key].last_accessed = workers[w].entry.current_time,
                        ![key].access_count = Bump(@)]
                ELSE query_cache
           /\ workers' = [workers EXCEPT ![w] =
                            [pc |-> "outside", query |-> None, entry |-> None,
                             result |-> entry.result]]
    /\ UNCHANGED <<cacheOpVars, response_cache, requests>>

\* query_cache.py:46-63
SetEntry(w, q) ==
    /\ Free(w)
    /\ BeginOp
    /\ query_cache' = QueryCacheSet(query_cache, q, OracleLongText, QueryTtl(q), now)
    /\ UNCHANGED <<cacheOpVars, response_cache, workers>>

\* chat_handler.py:611-622, under _cache_lock
LegacyGet(w, q) ==
    /\ Free(w)
    /\ BeginOp
    /\ response_cache' = GetCachedResponse(response_cache, GetCacheKey(q), now)[2]
    /\ UNCHANGED <<cacheOpVars, query_cache, workers>>

\* chat_handler.py:624-632, under _cache_lock
LegacySet(w, q) ==
    /\ Free(w)
    /\ BeginOp
    /\ response_cache' \in CacheResponse(response_cache, GetCacheKey(q), OracleLongText, now)
    /\ UNCHANGED <<cacheOpVars, query_cache, workers>>

CacheNext ==
    \/ \E w \in Threads, q \in CacheQuestions : GetEnter(w, q)
    \/ \E w \in Threads : GetLookup(w)
    \/ \E w \in Threads : GetDelete(w)
    \/ \E w \in Threads : GetTouch(w)
    \/ \E w \in Threads, q \in CacheQuestions : SetEntry(w, q)
    \/ \E w \in Threads, q \in CacheQuestions : LegacyGet(w, q)
    \/ \E w \in Threads, q \in CacheQuestions : LegacySet(w, q)
    \/ Tick

CacheSpec == CacheInit /\ [][CacheNext]_vars

\* C7: no interleaving of the threads' steps inside the cache methods makes
\* a cache method raise.
C7_CacheMethodsNeverRaise == \A w \in Threads : workers[w].pc # "raised"

\* C8: neither answer cache ever holds more entries than the capacity.
C8_CacheWithinCapacity ==
    /\ Cardinality(DOMAIN response_cache) <= MaxCacheEntries
    /\ Cardinality(DOMAIN query_cache) <= MaxCacheEntries


(***************************************************************************)
(* execute_query_csa_data as a function of its arguments and of the        *)
(* archive file: every query type, on a table with the judge columns.      *)
(***************************************************************************)
\* rows of the largest table
MaxRows == 72

\* An archive of two couples and a dancer entered alone; the two CSA
\* contests have a judge panel on record, the NSDC contest has none
SearchRows ==
    << Judged(Row(1, <<"A">>, "CSA", 2008, 1, "Pro", "Bab", "Ab"),
              <<"Kim", "Lee", NaN, NaN, NaN>>),
       Judged(Row(2, <<"A", "b">>, "CSA", 2010, 2, "Pro", "Bab", "Ab"),
              <<NaN, "Kim", NaN, NaN, NaN>>),
       Judged(Row(3, <<"B">>, "NSDC", 2012, 1, "Amateur", "Aba", "Ba"), NoJudges),
       Judged(Row(4, <<"B">>, "NSDC", 2012, 4, "Amateur", NaN, "Ab"), NoJudges) >>

\* A table of n rows of one couple, the first w of them wins
DancerTable(n, w) ==
    [i \in 1..n |->
        Judged(Row(i, <<"A">>, "CSA", 2000 + (i % 10), IF i <= w THEN 1 ELSE 2,
                   "Pro", "Ann Pro", "Sam West"),
               <<"Kim", NaN, NaN, NaN, NaN>>)]

QueryTypes ==
    {Str("top_dancers"), Str("dancer_record"), Str("dancer_search"),
     Str("contest_results"), Str("judge_statistics"), Str("custom_query"),
     Str("smart_dancer_lookup"), Str("unique_counts"), Str("win_statistics"),
     Str("partnership_analysis"), Str("career_statistics"), Str("yearly_trends"),
     Str("no_such_query")}

QueryNames == {Str("Ab"), Str("Ba"), Str("Bab"), Str("ab"), Str("aba"), Str("bb"), Str("."), Str("("),
               Str(""), Str(" "), Str("Sam West")}

\* The filter specifications: a name or none, a year range or half of one
\* or none, and one more filter or none
NameParts == {EmptyMap} \cup {[k \in {"dancer_name"} |-> v] : v \in QueryNames}
RangeParts ==
    {EmptyMap,
     [k \in {"start_year"} |-> Int_(2010)],
     [k \in {"end_year"} |-> Int_(2010)],
     [k \in {"start_year", "end_year"} |-> IF k = "start_year" THEN Int_(2010) ELSE Int_(2012)]}
OtherParts ==
    {EmptyMap,
     [k \in {"division"} |-> Str("Pro")],
     [k \in {"division"} |-> Str("Novice")],
     [k \in {"organization"} |-> Str("NSDC")],
     [k \in {"metric"} |-> Str("wins")]}

QueryFilterSpecs == {a @@ b @@ c : a \in NameParts, b \in RangeParts, c \in OtherParts}

QueryLimits == {Int_(2), Int_(0), Int_(-1), Int_(HARD_LIMIT + 10)}

QueryInputs ==
    [query_type : QueryTypes,
     filters : {Map(f) : f \in QueryFilterSpecs},
     limit : QueryLimits]

\* On the large tables: the lookups of the one couple, and the lists
BigInputs ==
    [query_type : {Str("smart_dancer_lookup"), Str("win_statistics"),
                   Str("dancer_record"), Str("judge_statistics"),
                   Str("yearly_trends")},
     filters : {Map(EmptyMap), Map([k \in {"dancer_name"} |-> Str("Sam West")])},
     limit : QueryLimits]

QueryInit ==
    /\ InitProcess
    /\ \/ /\ csv_file \in {<<>>, SearchRows}
          /\ filter_input \in QueryInputs
       \/ /\ csv_file \in {DancerTable(MaxRows, (2 * MaxRows) \div 3),
                           DancerTable(MaxRows, 0)}
          /\ filter_input \in BigInputs
    /\ csv_data = csv_file
    /\ filter_output = None
    /\ workers = [w \in Threads |-> Outside]
    /\ InitSide

QueryNext == RunQuery

QuerySpec == QueryInit /\ [][QueryNext]_vars

\* The operation has returned a result dict (not the dict of the except)
Returned == filter_output # None /\ filter_output.kind = "result"
Asked(query_type) == filter_input.query_type = Str(query_type)

\* A filter specification that names one end of a year range only
LoneYearBound(f) ==
    \/ Has(f, "start_year") /\ ~Has(f, "end_year")
    \/ Has(f, "end_year") /\ ~Has(f, "start_year")
WithoutYearRange(f) == [k \in DOMAIN f \ {"start_year", "end_year"} |-> f[k]]

\* C11: a filter specification that names start_year without end_year, or
\* end_year without start_year, constrains no year: every query type
\* returns what it returns for the same specification without that key.
C11_YearRangeNeedsBothEnds ==
    (filter_output # None /\ LoneYearBound(filter_input.filters.m))
        => filter_output = execute_query_csa_data(
                               filter_input.query_type,
                               Map(WithoutYearRange(filter_input.filters.m)),
                               filter_input.limit, csv_file)

\* The dict the operation returned: the fields a branch added to `result`,
\* or the dict a branch returned in place of it
Payload ==
    IF "body" \in DOMAIN filter_output.fields
    THEN filter_output.fields.body
    ELSE filter_output.fields

\* C12: every result of a recognized query type carries the record count
\* of the whole table and the record count after filtering.
C12_BothCountsInEveryResult ==
    (Returned /\ ~Asked("no_such_query"))
        => {"total_database_records", "filtered_records"}
              \subseteq DOMAIN filter_output.fields

\* The lists of rows and of ranked entries in the returned dict
ListKeys == {"results", "records", "sample_records", "partnerships"}
ReturnedLists == {Payload[k] : k \in ListKeys \cap DOMAIN Payload}

\* C13: whatever integer the caller gives as limit, no list of rows or of
\* ranked entries in a result is longer than 50, nor longer than the limit
\* when that is between 1 and 50.
C13_ListsWithinLimit ==
    Returned =>
        \A list \in ReturnedLists :
            /\ Len(list) <= HARD_LIMIT
            /\ (0 < filter_input.limit.n /\ filter_input.limit.n <= HARD_LIMIT)
                  => Len(list) <= filter_input.limit.n

(***************************************************************************)
(* execute_analyze_csa_data as a function of its arguments and of the      *)
(* archive file.                                                           *)
(***************************************************************************)
\* A table of n dancers entered alone, each once, before the same panel
CrowdTable(n) ==
    [i \in 1..n |->
        Judged(Row(i, <<"A">>, "CSA", 2008, 1, "Pro", NaN, ToString(i)),
               <<"Kim", "Lee", NaN, NaN, NaN>>)]

\* SearchRows and three more contests: Ba in Pro two years after the
\* first Amateur contest, Bea in Amateur and Pro in one year.  (Ab is in
\* Pro from 2008 and in Amateur in 2012.)
CareerRows ==
    SearchRows \o
    << Judged(Row(5, <<"B">>, "NSDC", 2014, 2, "Pro", NaN, "Ba"), NoJudges),
       Judged(Row(6, <<"A">>, "CSA", 2012, 3, "Amateur", "Bea", NaN), NoJudges),
       Judged(Row(7, <<"A">>, "CSA", 2012, 2, "Pro", "Bea", NaN), NoJudges) >>

AnalysisTypes ==
    {Str("judge_dancer_frequency"), Str("judge_panel_combinations"),
     Str("judge_dancer_outcomes"), Str("retention_analysis"),
     Str("career_progression_time"), Str("win_concentration_analysis")}

SubjectParts ==
    {EmptyMap,
     [k \in {"judge_name"} |-> Str("Kim")],
     [k \in {"judge_name"} |-> Str("Lee")],
     [k \in {"dancer_name"} |-> Str("Ab")],
     [k \in {"dancer_name"} |-> Str("Sam West")]}
ThresholdParts == {EmptyMap, [k \in {"min_occurrences"} |-> Int_(1)]}

AnalyzeFilterSpecs ==
    {a @@ b @@ c : a \in SubjectParts, b \in ThresholdParts, c \in OtherParts}

AnalyzeInputs ==
    [analysis_type : AnalysisTypes,
     filters : {Map(f) : f \in AnalyzeFilterSpecs},
     limit : QueryLimits \cup {Int_(DEFAULT_ANALYZE_LIMIT)}]

\* On the large table: the dancers seen by one judge
CrowdInputs ==
    [analysis_type : {Str("judge_dancer_frequency")},
     filters : {Map([k \in {"judge_name"} |-> Str("Kim")])},
     limit : QueryLimits \cup {Int_(DEFAULT_ANALYZE_LIMIT)}]

AnalyzeInit ==
    /\ InitProcess
    /\ \/ /\ csv_file \in {<<>>, SearchRows, CareerRows, DancerTable(JUDGE_SLOTS, 1)}
          /\ filter_input \in AnalyzeInputs
       \/ /\ csv_file = CrowdTable(MaxRows)
          /\ filter_input \in CrowdInputs
    /\ csv_data = csv_file
    /\ filter_output = None
    /\ workers = [w \in Threads |-> Outside]
    /\ InitSide

RunAnalysis ==
    /\ filter_output = None
    /\ filter_output' = execute_analyze_csa_data(filter_input.analysis_type,
                                                 filter_input.filters,
                                                 filter_input.limit, csv_file)
    /\ UNCHANGED <<serverVars, filter_input, workers, backup_file, sideVars>>

AnalyzeNext == RunAnalysis

AnalyzeSpec == AnalyzeInit /\ [][AnalyzeNext]_vars

\* The ranked lists in the dict an analysis returned
RankedKeys == {"results", "judge_specific_outcomes"}
RankedLists ==
    {filter_output.fields[k] : k \in RankedKeys \cap DOMAIN filter_output.fields}

\* C14: whatever limit the caller gives, a ranked list of an analysis has
\* at most limit entries and never more than the hard maximum, the one of
\* the query executor (a limit below zero allows none).
C14_RankedListsCapped ==
    Returned =>
        \A list \in RankedLists :
            Len(list) <= Max(0, Min(filter_input.limit.n, HARD_LIMIT))

\* The dancer names of the table, and those of them that contain the
\* characters q in that order, upper or lower case alike
AllNames(df) ==
    ({df[i].Male : i \in 1..Len(df)} \cup {df[i].Female : i \in 1..Len(df)}) \ {NaN}
NamesContaining(df, q) == {n \in AllNames(df) : ContainsNoCase(CharsOf(n), q)}

ProfileKeys == {"total_contests", "wins", "divisions", "years_active"}

\* C15: dancer_search for a query string answers by the number d of
\* distinct names, of either column, that contain the string without
\* regard to case: for d = 0 an empty match list and a spelling suggestion,
\* for d = 1 that name and its profile, for d >= 2 at most 10 candidate
\* names with the count d and no profile.
C15_SearchOutcomeByMatchCount ==
    (filter_output # None /\ Asked("dancer_search")
        /\ Has(filter_input.filters.m, "dancer_name"))
    => LET matching == NamesContaining(csv_file,
                           CharsOf(filter_input.filters.m["dancer_name"].s))
           d == Cardinality(matching)
       IN  /\ Returned
           /\ d = 0 => /\ {"matches", "suggestion"} \subseteq DOMAIN Payload
                       /\ Payload.matches = <<>>
           /\ d = 1 => /\ {"exact_match"} \cup ProfileKeys \subseteq DOMAIN Payload
                       /\ Payload.exact_match \in matching
           /\ d >= 2 => /\ {"matches", "match_count"} \subseteq DOMAIN Payload
                        /\ Len(Payload.matches) <= MAX_SUGGESTIONS
                        /\ Payload.match_count = d
                        /\ DOMAIN Payload \cap ({"exact_match"} \cup ProfileKeys) = {}

\* C16: smart_dancer_lookup answers in one call.  If some row has the
\* query as its male or female name, the summary is that of these rows.
\* If none has, the names containing the query decide: two or more give at
\* most 10 candidates and no summary, exactly one gives the summary of that
\* dancer, none gives a not-found message only.
C16_LookupResolvesInOneCall ==
    (filter_output # None /\ Asked("smart_dancer_lookup")
        /\ Has(filter_input.filters.m, "dancer_name"))
    => LET q == CharsOf(filter_input.filters.m["dancer_name"].s)
           exact == {n \in AllNames(csv_file) : CharsOf(n) = q}
           matching == NamesContaining(csv_file, q)
           exact_rows == Count(csv_file, LAMBDA r :
                             (r.Male # NaN /\ CharsOf(r.Male) = q)
                                 \/ (r.Female # NaN /\ CharsOf(r.Female) = q))
       IN  /\ Returned
           /\ exact # {} =>
                /\ "summary" \in DOMAIN Payload
                /\ Payload.summary.total_contests <= exact_rows
                /\ DOMAIN filter_input.filters.m = {"dancer_name"}
                      => Payload.summary.total_contests = exact_rows
           /\ (exact = {} /\ Cardinality(matching) >= 2) =>
                /\ "possible_matches" \in DOMAIN Payload
                /\ Len(Payload.possible_matches) <= MAX_SUGGESTIONS
                /\ "summary" \notin DOMAIN Payload
           /\ (exact = {} /\ Cardinality(matching) = 1) => "summary" \in DOMAIN Payload
           /\ (exact = {} /\ matching = {}) => DOMAIN Payload = {"message"}

\* The rows of dancer q in table df under the organization, division and
\* year-range filters of f
ExpectedRows(f, df, q) ==
    SelectRows(df, LAMBDA r :
        /\ (r.Male # NaN /\ CharsOf(r.Male) = q) \/ (r.Female # NaN /\ CharsOf(r.Female) = q)
        /\ (Has(f, "organization") /\ f["organization"] # Str("Both"))
              => r.Organization = f["organization"].s
        /\ Has(f, "division") => r.Division = f["division"].s
        /\ (Has(f, "start_year") /\ Has(f, "end_year"))
              => (r.Year >= f["start_year"].n /\ r.Year <= f["end_year"].n))

\* C17: the summary of a resolved dancer counts the dancer's rows, in
\* either name column, under the optional filters (a year range given by
\* both ends) as total_contests and those of them with placement 1 as
\* total_wins; win_rate is wins/contests*100 to the nearest tenth, and 0
\* when there is no contest.  72 rows with 48 wins give 72, 48 and 66.7.
C17_LookupSummaryCounts ==
    (Returned /\ Asked("smart_dancer_lookup") /\ "summary" \in DOMAIN Payload)
    => LET s == Payload.summary
           f == filter_input.filters.m
           rows == ExpectedRows(f, csv_file, Payload.dancer_name)
       IN  /\ s.total_wins <= s.total_contests
           /\ ~LoneYearBound(f) =>
                /\ s.total_contests = Len(rows)
                /\ s.total_wins = Len(SelectSeq(rows, LAMBDA r : r.Placement = 1))
           /\ s.total_contests = 0 => s.win_rate = 0
           /\ s.total_contests > 0 =>
                /\ 2 * (s.win_rate * s.total_contests - 1000 * s.total_wins) <= s.total_contests
                /\ 2 * (1000 * s.total_wins - s.win_rate * s.total_contests) <= s.total_contests
           /\ (s.total_contests = 72 /\ s.total_wins = 48) => s.win_rate = 667

\* The lookup of a dancer with MaxRows contests, two thirds of them won
C17_Witness ==
    /\ Returned
    /\ Asked("smart_dancer_lookup")
    /\ "summary" \in DOMAIN Payload
    /\ Payload.summary.total_contests = MaxRows
    /\ Payload.summary.total_wins = (2 * MaxRows) \div 3
    /\ Payload.summary.win_rate % 10 # 0

\* The rows that match the filter specification of the call
MatchingRows == ApplyFilters(filter_input.filters.m, csv_file).rows

\* C18: judge_statistics always reports the number of matching rows with a
\* judge on record and the number without, the two add up to the filtered
\* record count, and when no matching row has a judge in any of its five
\* slots the ranking is empty, the first number is 0 and the second is the
\* filtered record count.
C18_JudgeDataCompleteness ==
    (filter_output # None /\ Asked("judge_statistics"))
    => /\ Returned
       /\ {"results", "records_with_judge_data", "records_without_judge_data"}
              \subseteq DOMAIN Payload
       /\ Payload.records_with_judge_data
              = Len(SelectSeq(MatchingRows, LAMBDA r :
                        \E k \in 1..JUDGE_SLOTS : r.Judges[k] # NaN))
       /\ Payload.records_with_judge_data + Payload.records_without_judge_data
              = filter_output.fields.filtered_records
       /\ filter_output.fields.filtered_records = Len(MatchingRows)
       /\ (\A i \in 1..Len(MatchingRows) : MatchingRows[i].Judges = NoJudges)
              => /\ Payload.results = <<>>
                 /\ Payload.records_with_judge_data = 0
                 /\ Payload.records_without_judge_data = Len(MatchingRows)

\* Matching rows, none of them with a judge on record
C18_Witness ==
    /\ Returned
    /\ Asked("judge_statistics")
    /\ filter_output.fields.filtered_records > 0
    /\ Payload.records_without_judge_data = filter_output.fields.filtered_records
    /\ Payload.results = <<>>

\* The matching rows of the dancer named in the filter specification
MatchingRowsOfDancer ==
    SelectSeq(MatchingRows, LAMBDA r :
        \/ r.Male = filter_input.filters.m["dancer_name"].s
        \/ r.Female = filter_input.filters.m["dancer_name"].s)

\* C19: for a dancer with at least one row under the filter, win_statistics
\* returns the number of these rows as total_contests, those with placement
\* 1 as wins and those with placement at most 3 as top_3_finishes, so that
\* wins <= top_3_finishes <= total_contests, and win_rate_percent is
\* wins/total_contests*100 to the nearest hundredth.
C19_WinStatisticsOrdered ==
    (filter_output # None /\ Asked("win_statistics")
        /\ Has(filter_input.filters.m, "dancer_name")
        /\ Len(MatchingRowsOfDancer) >= 1)
    => /\ Returned
       /\ {"total_contests", "wins", "top_3_finishes", "win_rate_percent"}
              \subseteq DOMAIN Payload
       /\ Payload.total_contests = Len(MatchingRowsOfDancer)
       /\ Payload.wins = Len(SelectSeq(MatchingRowsOfDancer, LAMBDA r : r.Placement = 1))
       /\ Payload.top_3_finishes
              = Len(SelectSeq(MatchingRowsOfDancer, LAMBDA r : r.Placement <= 3))
       /\ Payload.wins <= Payload.top_3_finishes
       /\ Payload.top_3_finishes <= Payload.total_contests
       /\ 2 * (Payload.win_rate_percent * Payload.total_contests - 10000 * Payload.wins)
              <= Payload.total_contests
       /\ 2 * (10000 * Payload.wins - Payload.win_rate_percent * Payload.total_contests)
              <= Payload.total_contests

\* A dancer with a win, a further top-3 finish and a lower placement
C19_Witness ==
    /\ Returned
    /\ Asked("win_statistics")
    /\ "wins" \in DOMAIN Payload
    /\ 0 < Payload.wins
    /\ Payload.wins < Payload.top_3_finishes
    /\ Payload.top_3_finishes < Payload.total_contests
    /\ Payload.win_rate_percent % 100 # 0

NameBasedQueries ==
    {Str("win_statistics"), Str("partnership_analysis"), Str("career_statistics")}

\* C20: a name-based operation asked about a dancer of the table returns a
\* result and no error, also when no row of the dancer matches the filter
\* specification, in which case the result counts no contest; an error is
\* for a name that no row of the table has.
C20_EmptySubsetIsZeroResult ==
    (filter_output # None /\ filter_input.query_type \in NameBasedQueries
        /\ Has(filter_input.filters.m, "dancer_name")
        /\ filter_input.filters.m["dancer_name"].s \in AllNames(csv_file))
    => /\ Returned
       /\ "error" \notin DOMAIN Payload
       /\ (Len(MatchingRowsOfDancer) = 0 /\ "total_contests" \in DOMAIN Payload)
             => Payload.total_contests = 0

\* The sum of the values of a count by year
\* C21: the counts by year that yearly_trends returns for the metric
\* entries add up to the number of rows matching the filter specification,
\* and peak_year is a year with the greatest count, or null when the
\* matching rows have no year.
C21_YearlyEntriesSumToFiltered ==
    (filter_output # None /\ Asked("yearly_trends")
        /\ ~Has(filter_input.filters.m, "metric"))
    => /\ Returned
       /\ SumOf(Payload.yearly_data, DOMAIN Payload.yearly_data) = Len(MatchingRows)
       /\ DOMAIN Payload.yearly_data = {MatchingRows[i].Year : i \in 1..Len(MatchingRows)}
       /\ MatchingRows = <<>> => Payload.peak_year = Null
       /\ MatchingRows # <<>> =>
            /\ Payload.peak_year.t = "int"
            /\ Payload.peak_year.n \in DOMAIN Payload.yearly_data
            /\ \A y \in DOMAIN Payload.yearly_data :
                  Payload.yearly_data[y] <= Payload.yearly_data[Payload.peak_year.n]

\* Rows counted in several years that do not have the same count, the last
\* year not one of the peak
C21_Witness ==
    /\ Returned
    /\ Asked("yearly_trends")
    /\ ~Has(filter_input.filters.m, "metric")
    /\ Cardinality(DOMAIN Payload.yearly_data) >= 2
    /\ \E y \in DOMAIN Payload.yearly_data :
          /\ y > Payload.peak_year.n
          /\ Payload.yearly_data[y] < Payload.peak_count.n

(***************************************************************************)
(* The Amateur to Pro analyses, under AnalyzeSpec.                         *)
(***************************************************************************)
Analysed(analysis_type) == filter_input.analysis_type = Str(analysis_type)

\* The rows the analysis works on, and the dancers named in the rows of a
\* division
AnalysedRows == AnalysisFilterStep(filter_input.filters, csv_file).rows
NamedIn(division) ==
    {n \in AllNames(AnalysedRows) :
        \E i \in 1..Len(AnalysedRows) :
            /\ AnalysedRows[i].Division = division
            /\ n \in {AnalysedRows[i].Male, AnalysedRows[i].Female}}
ReachedPro == NamedIn("Amateur") \cap NamedIn("Pro")

RetentionCounts ==
    /\ Returned
    /\ filter_output.fields.total_amateur_dancers = Cardinality(NamedIn("Amateur"))
    /\ filter_output.fields.reached_pro = Cardinality(ReachedPro)
    /\ filter_output.fields.reached_pro <= filter_output.fields.total_amateur_dancers
    /\ filter_output.fields.still_amateur_only =
          filter_output.fields.total_amateur_dancers - filter_output.fields.reached_pro
    /\ NamedIn("Amateur") = {} => filter_output.fields.retention_rate_pct = 0

\* C22 as amended: retention_analysis returns reached_pro <=
\* total_amateur_dancers, still_amateur_only = total_amateur_dancers -
\* reached_pro, and a retention rate that is reached_pro /
\* total_amateur_dancers * 100 rounded to one decimal place, 0 with no
\* error when there is no Amateur dancer.  (The rate is in tenths of a
\* percent.)
C22_RetentionRateRounded ==
    (filter_output # None /\ Analysed("retention_analysis"))
    => /\ RetentionCounts
       /\ LET total == filter_output.fields.total_amateur_dancers
              exact == 1000 * filter_output.fields.reached_pro
              shown == filter_output.fields.retention_rate_pct * total
          IN  total > 0 => /\ 2 * (shown - exact) <= total
                           /\ 2 * (exact - shown) <= total

\* Some of the Amateur dancers reached Pro, in a proportion that has no
\* exact percentage of one decimal place
C22_Witness ==
    /\ Returned
    /\ Analysed("retention_analysis")
    /\ filter_output.fields.reached_pro > 0
    /\ filter_output.fields.retention_rate_pct
          * filter_output.fields.total_amateur_dancers
       # 1000 * filter_output.fields.reached_pro

\* C22 as stated: retention_analysis returns reached_pro <=
\* total_amateur_dancers, still_amateur_only = total_amateur_dancers -
\* reached_pro, and retention_rate = reached_pro / total_amateur_dancers *
\* 100, which is 0 with no error raised when there is no Amateur dancer.
C22_RetentionRateExact ==
    (filter_output # None /\ Analysed("retention_analysis"))
    => /\ RetentionCounts
       /\ filter_output.fields.total_amateur_dancers > 0
          => filter_output.fields.retention_rate_pct
                * filter_output.fields.total_amateur_dancers
             = 1000 * filter_output.fields.reached_pro

\* The dancers of both divisions whose first Pro year is after their first
\* Amateur year, and the years each took
Qualifying ==
    {d \in ReachedPro :
        FirstYear(AnalysedRows, d, "Pro") > FirstYear(AnalysedRows, d, "Amateur")}
YearsTaken(d) == FirstYear(AnalysedRows, d, "Pro") - FirstYear(AnalysedRows, d, "Amateur")

\* C23: career_progression_time counts only the dancers whose first Pro
\* year is strictly after their first Amateur year: dancers_analyzed is
\* their number, the fastest and slowest progression are the least and the
\* greatest of their positive numbers of years with the average between
\* the two, and when no dancer qualifies the three statistics are null,
\* dancers_analyzed is 0 and no error is returned.
C23_OnlyForwardProgressions ==
    (filter_output # None /\ Analysed("career_progression_time"))
    => /\ Returned
       /\ filter_output.fields.dancers_analyzed = Cardinality(Qualifying)
       /\ Qualifying = {} =>
            /\ filter_output.fields.avg_years_to_pro = Null
            /\ filter_output.fields.fastest_progression_years = Null
            /\ filter_output.fields.slowest_progression_years = Null
       /\ Qualifying # {} =>
            LET fastest == filter_output.fields.fastest_progression_years
                slowest == filter_output.fields.slowest_progression_years
                avg == filter_output.fields.avg_years_to_pro
            IN  /\ fastest.t = "int" /\ slowest.t = "int" /\ avg.t = "int"
                /\ fastest.n > 0
                /\ fastest.n \in {YearsTaken(d) : d \in Qualifying}
                /\ slowest.n \in {YearsTaken(d) : d \in Qualifying}
                /\ \A d \in Qualifying : fastest.n <= YearsTaken(d) /\ YearsTaken(d) <= slowest.n
                /\ 10 * fastest.n <= avg.n
                /\ avg.n <= 10 * slowest.n

\* One dancer progressed, one was in Pro before Amateur and one entered
\* both divisions in the same year
C23_Witness ==
    /\ Returned
    /\ Analysed("career_progression_time")
    /\ filter_output.fields.dancers_analyzed > 0
    /\ \E d \in ReachedPro : YearsTaken(d) < 0
    /\ \E d \in ReachedPro : YearsTaken(d) = 0

\* No dancer qualifies although some are in both divisions
C23_NoneQualifies ==
    /\ Returned
    /\ Analysed("career_progression_time")
    /\ filter_output.fields.dancers_analyzed = 0
    /\ ReachedPro # {}

(***************************************************************************)
(* update_archive_data (scripts/update_data.py) step by step: a run has    *)
(* the new data file and the backup flag as arguments and existing_df,     *)
(* new_df and final_df as locals.                                          *)
(***************************************************************************)
MaxBatch == 2

\* update_data.py:38-42
required_columns ==
    {"Archive ID", "Contest", "Organization", "Year", "Host Club", "Placement",
     "Division", "Female Name", "Male Name", "Couple Name", "Judge 1", "Judge 2",
     "Judge 3", "Judge 4", "Judge 5", "Record ID"}

\* Rows of a new data file: rows 2 and 3 of the archive with other fields,
\* row 2 with the female name left empty, and two rows of a contest the
\* archive does not have under one Archive ID
BatchRows ==
    { Row(2, <<"A", "b">>, "CSA", 2008, 1, "Amateur", "Bea", "Joe"),
      Row(2, <<"A", "b">>, "CSA", 2008, 2, "Pro", NaN, "Joe"),
      Row(3, <<"B", "a">>, "NSDC", 2010, 1, "Amateur", "Ann", "Joe"),
      Row(4, <<"B", "a">>, "NSDC", 2012, 1, "Pro", "Ann", "Sam West"),
      Row(4, <<"B", "a">>, "NSDC", 2012, 2, "Pro", "Bea", "Joe") }

RowSeqs(n) == UNION {[1..k -> BatchRows] : k \in 0..n}

\* A file that read_csv cannot read, a file without the Record ID column,
\* and the files of at most MaxBatch rows with every column
NewDataFiles ==
    {[readable |-> FALSE, columns |-> {}, rows |-> <<>>]}
    \cup {[readable |-> TRUE, columns |-> required_columns \ {"Record ID"},
           rows |-> <<Row(4, <<"B", "a">>, "NSDC", 2012, 1, "Pro", "Ann", "Sam West")>>]}
    \cup {[readable |-> TRUE, columns |-> required_columns, rows |-> b] :
             b \in RowSeqs(MaxBatch)}

UpdateArchives == {ArchiveRows, SubSeq(ArchiveRows, 1, 1)}

\* update_data.py:11, the call
UpdateRun(new_data_file, backup) ==
    [pc |-> "load_existing", new_data_file |-> new_data_file, backup |-> backup,
     existing_df |-> <<>>, new_df |-> <<>>, final_df |-> <<>>, result |-> None]

UpdateInit ==
    /\ InitProcess
    /\ csv_file \in UpdateArchives
    /\ csv_data = csv_file
    /\ filter_input = None
    /\ filter_output = None
    /\ workers = [w \in Threads |-> Outside]
    /\ backup_file = None
    /\ update_run \in {UpdateRun(f, b) : f \in NewDataFiles, b \in BOOLEAN}
    /\ message_count = 0
    /\ askers = [t \in Threads |-> "idle"]
    /\ processed = 0

updateOtherVars == <<serverVars, filter_input, filter_output, workers,
                     message_count, askers, processed>>
archiveVars == <<client, now, query_cache, response_cache, csv_data, pc,
                 user_question, messages, response, attempt, tool_idx, tool_results,
                 returned, raised, rounds, requests, merges, attempts_made,
                 tables_read, oracle_called, tool_called,
                 filter_input, filter_output, workers, message_count, askers, processed>>

\* update_data.py:29, existing_df = pd.read_csv(original_file)
LoadExisting ==
    /\ update_run # None
    /\ update_run.pc = "load_existing"
    /\ update_run' = [update_run EXCEPT !.pc = "load_new", !.existing_df = csv_file]
    /\ UNCHANGED <<updateOtherVars, backup_file>>

\* update_data.py:34, new_df = pd.read_csv(new_data_file); lines 105-107
\* when it raises
LoadNew ==
    /\ update_run # None
    /\ update_run.pc = "load_new"
    /\ update_run' =
          IF update_run.new_data_file.readable
          THEN [update_run EXCEPT !.pc = "validate",
                                  !.new_df = update_run.new_data_file.rows]
          ELSE [update_run EXCEPT !.pc = "returned", !.result = FALSE]
    /\ UNCHANGED <<updateOtherVars, backup_file>>

\* update_data.py:44-47
ValidateColumns ==
    /\ update_run # None
    /\ update_run.pc = "validate"
    /\ LET missing_cols == required_columns \ update_run.new_data_file.columns
       IN  update_run' =
              IF missing_cols # {}
              THEN [update_run EXCEPT !.pc = "returned", !.result = FALSE]
              ELSE [update_run EXCEPT !.pc = "backup"]
    /\ UNCHANGED <<updateOtherVars, backup_file>>

\* The table merged so far
MergedSnapshot(run) == [rows |-> run.final_df]
\* update_data.py:53, existing_df.to_csv(backup_file)
BackupSnapshot(run) == [rows |-> run.existing_df]

\* update_data.py:52-54
CreateBackup ==
    /\ update_run # None
    /\ update_run.pc = "backup"
    /\ backup_file' = IF update_run.backup
                      THEN BackupSnapshot(update_run)
                      ELSE backup_file
    /\ update_run' = [update_run EXCEPT !.pc = "merge"]
    /\ UNCHANGED updateOtherVars

\* update_data.py:59-81
MergeRecords ==
    /\ update_run # None
    /\ update_run.pc = "merge"
    /\ update_run' = [update_run EXCEPT
                         !.pc = "save",
                         !.final_df = MergeTables(update_run.existing_df, update_run.new_df)]
    /\ UNCHANGED <<updateOtherVars, backup_file>>

\* update_data.py:84, final_df.to_csv(original_file), and line 103
SaveArchive ==
    /\ update_run # None
    /\ update_run.pc = "save"
    /\ csv_file' = update_run.final_df
    /\ update_run' = [update_run EXCEPT !.pc = "returned", !.result = TRUE]
    /\ UNCHANGED <<archiveVars, backup_file>>

UpdateNext ==
    \/ LoadExisting
    \/ LoadNew
    \/ ValidateColumns
    \/ CreateBackup
    \/ MergeRecords
    \/ SaveArchive

UpdateSpec == UpdateInit /\ [][UpdateNext]_vars

\* The run wrote the archive file
Saved == update_run # None /\ update_run.pc = "returned" /\ update_run.result = TRUE

\* The Archive IDs of the new data file that the archive did not have
NewIds == Ids(update_run.new_df) \ Ids(update_run.existing_df)

\* C24: update_archive_data writes a table that has the rows of the
\* existing table and one more row for each distinct Archive ID of the new
\* data file that the existing table did not have; so a file of existing
\* IDs only leaves the number of rows as it was.
C24_RowCountGrowsByNewIds ==
    Saved => Len(csv_file) = Len(update_run.existing_df) + Cardinality(NewIds)

\* A new data file with an Archive ID of the archive and twice the same
\* new Archive ID
C24_Witness ==
    /\ Saved
    /\ Len(update_run.new_df) > Cardinality(Ids(update_run.new_df))
    /\ NewIds # {}
    /\ Len(csv_file) = Len(update_run.existing_df) + 1

\* A new data file of Archive IDs of the archive only
C24_OnlyExistingIds ==
    /\ Saved
    /\ update_run.new_df # <<>>
    /\ NewIds = {}
    /\ csv_file # update_run.existing_df

\* The last row of the new data file with the Archive ID
LastOf(batch, id) ==
    batch[CHOOSE i \in 1..Len(batch) :
             /\ batch[i].archive_id = id
             /\ \A j \in (i + 1)..Len(batch) : batch[j].archive_id # id]

\* C25: after update_archive_data each Archive ID is in one row of the
\* archive, and the row of an Archive ID that the archive had and the new
\* data file has is, field by field, the last row of the new data file
\* with that ID, the empty fields of that row included.
C25_UpdatedRowsEqualLastBatchRow ==
    Saved =>
       /\ \A i, j \in 1..Len(csv_file) :
             csv_file[i].archive_id = csv_file[j].archive_id => i = j
       /\ \A id \in Ids(update_run.new_df) \cap Ids(update_run.existing_df) :
             \E i \in 1..Len(csv_file) : csv_file[i] = LastOf(update_run.new_df, id)

\* C26 as amended: in a run of update_archive_data with the backup asked
\* for, the archive file is written only by the save step, and when that
\* step writes it the backup file holds the rows the archive file had
\* before; a run that returns before that step leaves the archive file as
\* it was, whether the backup was asked for or not.
C26_BackupBeforeOverwriteWhenAsked ==
    [][csv_file' # csv_file
          => /\ update_run.pc = "save"
             /\ update_run.backup => backup_file = [rows |-> csv_file]]_vars

\* A run with the backup asked for has written other rows to the archive
\* file, and the backup has the rows of before
C26_Witness ==
    /\ Saved
    /\ update_run.backup
    /\ csv_file # update_run.existing_df
    /\ backup_file = [rows |-> update_run.existing_df]

\* A run that returned at the column check
C26_FailedRun ==
    /\ update_run # None
    /\ update_run.pc = "returned"
    /\ update_run.result = FALSE
    /\ update_run.new_data_file.readable
    /\ csv_file = update_run.existing_df

\* C26 as stated: the archive file is written only by the save step of a
\* run of update_archive_data, and when that step writes it the backup
\* file holds the rows the archive file had before; so a run that returns
\* before that step leaves the archive file as it was.
C26_BackupBeforeOverwrite ==
    [][csv_file' # csv_file
          => /\ update_run.pc = "save"
             /\ backup_file = [rows |-> csv_file]]_vars

(***************************************************************************)
(* The message history of process_query, under Spec.                       *)
(***************************************************************************)
\* The message is the one the role of its place in the history asks for
RoleAt(k) == IF k % 2 = 1 THEN "user" ELSE "assistant"

\* C27: while process_query talks to the oracle its message history starts
\* with the user question, alternates user and assistant, and has two
\* messages for each ToolDispatch round on top of the question: the
\* assistant message with the tool_use blocks of the round and, directly
\* after it, one user message with one tool_result for each of those
\* blocks, carrying the ids of the blocks in their order.  While a round
\* runs, the results collected so far are those of the blocks run so far,
\* one each and in order.
C27_OneResultPerToolUseInOrder ==
    pc \in {"call", "loop", "tools"}
    => /\ messages # <<>>
       /\ messages[1] = UserMessage("question")
       /\ \A k \in 1..Len(messages) : messages[k].role = RoleAt(k)
       /\ \A k \in 2..Len(messages) :
             (k % 2 = 1) => messages[k].content = messages[k - 1].content
       /\ pc \in {"call", "loop"} => Len(messages) = 1 + 2 * rounds
       /\ (pc = "tools" /\ Len(messages) % 2 = 0)
             => /\ Len(messages) = 2 * rounds
                /\ Len(tool_results) = tool_idx - 1
                /\ \A i \in 1..Len(tool_results) :
                      tool_results[i].tool_use_id = messages[Len(messages)].content[i]

\* The results of a round of two tool_use blocks are in the history that
\* goes to the oracle
C27_Witness ==
    /\ pc = "call"
    /\ Len(messages) = 3
    /\ Len(messages[2].content) = 2
    /\ messages[3].content = messages[2].content

\* chat_handler.py:652-672, the texts of the degraded-service responses
ApologyTexts == {RateLimitApology, TimeoutApology, ErrorApology}

\* C28: no entry of the QueryCache and no entry of the legacy response
\* cache holds a degraded-service apology text of
\* _call_anthropic_with_retry, so no later question is answered with an
\* apology from a cache.
C28_ApologyNeverCached ==
    /\ \A k \in DOMAIN query_cache : query_cache[k].result \notin ApologyTexts
    /\ \A k \in DOMAIN response_cache : response_cache[k].data \notin ApologyTexts

(***************************************************************************)
(* /api/ask (app.py:69-155) in front of process_query: the daily limit of  *)
(* SimpleDailyLimiter, with one request thread per question.               *)
(***************************************************************************)
\* app.py:26, SimpleDailyLimiter(DATABASE_PATH, daily_limit=50)
daily_limit == 50

limitOtherVars == <<serverVars, filter_input, filter_output, workers, backup_file,
                    update_run>>

\* simple_limiter.py:45-66 as called at app.py:102-112: the count of today
\* is read and compared; a request over the limit is answered with 429
CanSendMessage(t) ==
    /\ askers[t] = "idle"
    /\ LET current_count == message_count
           allowed == current_count < daily_limit
       IN  askers' = [askers EXCEPT ![t] = IF allowed THEN "allowed" ELSE "idle"]
    /\ UNCHANGED <<limitOtherVars, message_count, processed>>

\* app.py:119, chat_handler.process_query(user_question)
ProcessQuery(t) ==
    /\ askers[t] = "allowed"
    /\ processed' = processed + 1
    /\ askers' = [askers EXCEPT ![t] = "answered"]
    /\ UNCHANGED <<limitOtherVars, message_count>>

\* simple_limiter.py:68-77 as called at app.py:144: one statement adds 1 to
\* the count of today
RecordMessage(t) ==
    /\ askers[t] = "answered"
    /\ message_count' = message_count + 1
    /\ askers' = [askers EXCEPT ![t] = "idle"]
    /\ UNCHANGED <<limitOtherVars, processed>>

LimitNext ==
    \/ \E t \in Threads : CanSendMessage(t)
    \/ \E t \in Threads : ProcessQuery(t)
    \/ \E t \in Threads : RecordMessage(t)

LimitSpec == Init /\ [][LimitNext]_vars

\* C29: however the /api/ask requests of one day interleave, no more
\* questions than the daily limit are passed to process_query.
C29_ProcessedWithinDailyLimit == processed <= daily_limit

(***************************************************************************)
(* The cache lookups at the start of process_query, under Spec.            *)
(***************************************************************************)
\* A step that starts process_query on a configured client
Asks == requests' = requests + 1 /\ client = "configured"

\* The entries the lookups of the step are about
SmartKey == GenerateKey(user_question')
LegacyKey == GetCacheKey(user_question')
SmartLookup == should_cache_query(user_question') /\ SmartKey \in DOMAIN query_cache
SmartEntry == query_cache[SmartKey]
LegacyEntry == response_cache[LegacyKey]

\* The step answers from the QueryCache, or from the legacy cache
SmartHit ==
    /\ SmartLookup
    /\ pc' = "done"
    /\ returned' = SmartEntry.result
    /\ SmartKey \in DOMAIN query_cache'
    /\ query_cache'[SmartKey].last_accessed = now
LegacyHit ==
    /\ ~SmartHit
    /\ LegacyKey \in DOMAIN response_cache
    /\ pc' = "done"
    /\ returned' = LegacyEntry.data

\* C30: a lookup at the start of process_query answers from the QueryCache
\* only with an entry set at a time t with a ttl such that now <= t + ttl,
\* and from the legacy cache only with an entry stored at a time t such
\* that now < t + 300 s; no other step answers from a cache; and a lookup
\* that finds its entry expired removes the entry and goes on as after a
\* miss.
C30_NoExpiredAnswerFromCache ==
    [][Asks =>
          /\ pc' = "done" => (SmartHit \/ LegacyHit)
          /\ SmartHit => /\ SmartEntry.expires_at - SmartEntry.created_at
                               \in {DEFAULT_TTL, STAT_TTL}
                         /\ now <= SmartEntry.expires_at
          /\ LegacyHit => now < LegacyEntry.timestamp + CACHE_EXPIRY_SECONDS
          /\ (SmartLookup /\ now > SmartEntry.expires_at)
                => /\ SmartKey \notin DOMAIN query_cache'
                   /\ ~SmartHit
          /\ (~SmartHit /\ LegacyKey \in DOMAIN response_cache
                /\ now >= LegacyEntry.timestamp + CACHE_EXPIRY_SECONDS)
                => /\ LegacyKey \notin DOMAIN response_cache'
                   /\ pc' = "call"]_vars

\* A question answered from the QueryCache at the last moment of its entry
C30_Witness ==
    /\ pc = "done"
    /\ client = "configured"
    /\ requests = 2
    /\ ~oracle_called
    /\ now > 0
    /\ GenerateKey(user_question) \in DOMAIN query_cache
    /\ query_cache[GenerateKey(user_question)].last_accessed
          = query_cache[GenerateKey(user_question)].expires_at
    /\ returned = query_cache[GenerateKey(user_question)].result

\* A question whose entries of both caches were found expired and removed
C30_ExpiredRemoved ==
    /\ pc = "call"
    /\ requests = 2
    /\ now = 2 * CACHE_EXPIRY_SECONDS
    /\ query_cache = NoCache
    /\ response_cache = NoCache
====
